---- MODULE Spec2Model ----
(***************************************************************************)
(* Salsa20js (src/salsa20.js): the Salsa20/20 core, the keystream          *)
(* generator, the encryption engine and the public wrappers with their     *)
(* input normalisation.                                                    *)
(*                                                                         *)
(* Representation.  TLC integers are 32 bit signed, so the values of the   *)
(* program that do not fit are kept in 16 bit limbs:                       *)
(*   - a 32 bit word (an element of a Uint32Array) is [hi, lo], standing   *)
(*     for hi * 65536 + lo;                                                *)
(*   - an integral JavaScript Number is [neg, mag] with mag a tuple of     *)
(*     four limbs, least significant first.                                *)
(* A byte (an element of a Uint8Array) is an integer in 0..255, a typed    *)
(* array is a sequence (index i of the program is index i + 1 here), a     *)
(* string is the sequence of its UTF-16 code units.                        *)
(***************************************************************************)
EXTENDS Integers, Sequences, FiniteSets, TLC

\* ------------------------------------------------------------------------
\* Evaluation order
\* ------------------------------------------------------------------------

\* In(x) with x the value of v: v is evaluated once, before In, as the right
\* side of a var statement is before the statements that read the variable
Let(v, In(_)) == CHOOSE r \in {In(x) : x \in {v}} : TRUE

Let2(v, w, In(_, _)) == CHOOSE r \in {In(x, y) : x \in {v}, y \in {w}} : TRUE

Let4(v1, v2, v3, v4, In(_, _, _, _)) ==
    CHOOSE r \in {In(x1, x2, x3, x4) : x1 \in {v1}, x2 \in {v2}, x3 \in {v3}, x4 \in {v4}} :
        TRUE

\* ------------------------------------------------------------------------
\* Bit operations on small non-negative integers
\* ------------------------------------------------------------------------

Pow2(n) ==
    CASE n = 0 -> 1 [] n = 1 -> 2 [] n = 2 -> 4 [] n = 3 -> 8
      [] n = 4 -> 16 [] n = 5 -> 32 [] n = 6 -> 64 [] n = 7 -> 128
      [] n = 8 -> 256 [] n = 9 -> 512 [] n = 10 -> 1024 [] n = 11 -> 2048
      [] n = 12 -> 4096 [] n = 13 -> 8192 [] n = 14 -> 16384
      [] n = 15 -> 32768 [] n = 16 -> 65536

Bit(a, k) == (a \div Pow2(k)) % 2

\* a ^ b for a, b in 0..15, tabulated
XorNibble ==
    [a \in 0..15 |-> [b \in 0..15 |->
          ((Bit(a, 0) + Bit(b, 0)) % 2)
        + (((Bit(a, 1) + Bit(b, 1)) % 2) * 2)
        + (((Bit(a, 2) + Bit(b, 2)) % 2) * 4)
        + (((Bit(a, 3) + Bit(b, 3)) % 2) * 8)]]

\* a ^ b for a, b in 0..65535, four bits at a time
BitXor(a, b) ==
      XorNibble[a % 16][b % 16]
    + (16 * XorNibble[(a \div 16) % 16][(b \div 16) % 16])
    + (256 * XorNibble[(a \div 256) % 16][(b \div 256) % 16])
    + (4096 * XorNibble[(a \div 4096) % 16][(b \div 4096) % 16])

\* a | b for a, b in 0..65535: a + b counts the common bits twice
BitOr(a, b) == (a + b + BitXor(a, b)) \div 2

\* ------------------------------------------------------------------------
\* Salsa20.core.util: word arithmetic
\* ------------------------------------------------------------------------

Word(h, l) == [hi |-> h, lo |-> l]

WordZero == Word(0, 0)

\* Faulty variant of sumWords: the halves are added without the carry
sumWordsNoCarry(wordA, wordB) ==
    Word((wordA.hi + wordB.hi) % 65536, (wordA.lo + wordB.lo) % 65536)

\* wordArray[0] = wordA + wordB: the Uint32Array store keeps the sum mod 2^32
sumWords(wordA, wordB) ==
    Let2(wordA, wordB, LAMBDA a, b :
        Word((a.hi + b.hi + ((a.lo + b.lo) \div 65536)) % 65536, (a.lo + b.lo) % 65536))

\* wordArray[0] = wordA ^ wordB: the store turns the signed result of ^ into
\* the unsigned word with the same 32 bits
\* a faulty variant: the second operand is complemented
xorWordsComplemented(wordA, wordB) ==
    Let2(wordA, wordB, LAMBDA a, b :
        Word(65535 - BitXor(a.hi, b.hi), 65535 - BitXor(a.lo, b.lo)))

xorWords(wordA, wordB) ==
    Let2(wordA, wordB, LAMBDA a, b : Word(BitXor(a.hi, b.hi), BitXor(a.lo, b.lo)))

\* wordA << n for 0 < n < 16: the low 32 bits of wordA * 2^n
ShiftLeftSmall(w, n) ==
    LET l == w.lo * Pow2(n)
        h == (w.hi * Pow2(n)) + (l \div 65536)
    IN  Word(h % 65536, l % 65536)

\* wordA >>> n for 0 < n < 16 (zero fill, no sign extension)
ShiftRightSmall(w, n) ==
    Word(w.hi \div Pow2(n), ((w.hi % Pow2(n)) * Pow2(16 - n)) + (w.lo \div Pow2(n)))

\* wordA << n for 0 < n < 32
ShiftLeft(w, n) ==
    IF n < 16 THEN ShiftLeftSmall(w, n)
    ELSE IF n = 16 THEN Word(w.lo, 0)
    ELSE ShiftLeftSmall(Word(w.lo, 0), n - 16)

\* wordA >>> n for 0 < n < 32
ShiftRight(w, n) ==
    IF n < 16 THEN ShiftRightSmall(w, n)
    ELSE IF n = 16 THEN Word(0, w.hi)
    ELSE ShiftRightSmall(Word(0, w.hi), n - 16)

\* wordArray[0] = (wordA << n | (wordA >>> (32 - n)))
leftRotate(wordA, numBitsToRotate) ==
    Let2(ShiftLeft(wordA, numBitsToRotate), ShiftRight(wordA, 32 - numBitsToRotate),
         LAMBDA l, r : Word(BitOr(l.hi, r.hi), BitOr(l.lo, r.lo)))

\* ------------------------------------------------------------------------
\* Salsa20.core: rounds
\* ------------------------------------------------------------------------

\* zWords is returned as <<z0, z1, z2, z3>>
\* a faulty variant: every step reads the input words, none the z words
\* computed before it
quarterRoundFromInputs(yWord0, yWord1, yWord2, yWord3) ==
    Let(xorWords(yWord1, leftRotate(sumWords(yWord0, yWord3), 7)), LAMBDA z1 :
    Let(xorWords(yWord2, leftRotate(sumWords(yWord1, yWord0), 9)), LAMBDA z2 :
    Let(xorWords(yWord3, leftRotate(sumWords(yWord2, yWord1), 13)), LAMBDA z3 :
    Let(xorWords(yWord0, leftRotate(sumWords(yWord3, yWord2), 18)), LAMBDA z0 :
        <<z0, z1, z2, z3>>))))

quarterRound(yWord0, yWord1, yWord2, yWord3) ==
    Let(xorWords(yWord1, leftRotate(sumWords(yWord0, yWord3), 7)), LAMBDA z1 :
    Let(xorWords(yWord2, leftRotate(sumWords(z1, yWord0), 9)), LAMBDA z2 :
    Let(xorWords(yWord3, leftRotate(sumWords(z2, z1), 13)), LAMBDA z3 :
    Let(xorWords(yWord0, leftRotate(sumWords(z3, z2), 18)), LAMBDA z0 :
        <<z0, z1, z2, z3>>))))

\* a faulty variant: the four groups are the rows read from their first word
rowRoundUnrotated(yWords) ==
    Let(yWords, LAMBDA y :
    Let4(quarterRound(y[1], y[2], y[3], y[4]),
         quarterRound(y[5], y[6], y[7], y[8]),
         quarterRound(y[9], y[10], y[11], y[12]),
         quarterRound(y[13], y[14], y[15], y[16]),
         LAMBDA t0, t1, t2, t3 : t0 \o t1 \o t2 \o t3))

\* yWords[i] of the program is y[i + 1] here
rowRound(yWords) ==
    Let(yWords, LAMBDA y :
    Let4(quarterRound(y[1], y[2], y[3], y[4]),
         quarterRound(y[6], y[7], y[8], y[5]),
         quarterRound(y[11], y[12], y[9], y[10]),
         quarterRound(y[16], y[13], y[14], y[15]),
         LAMBDA t0, t1, t2, t3 :
             << t0[1], t0[2], t0[3], t0[4],
                t1[4], t1[1], t1[2], t1[3],
                t2[3], t2[4], t2[1], t2[2],
                t3[2], t3[3], t3[4], t3[1] >>))

\* a faulty variant: the groups of the row round
columnRoundByRows(xWords) == rowRound(xWords)

columnRound(xWords) ==
    Let(xWords, LAMBDA x :
    Let4(quarterRound(x[1], x[5], x[9], x[13]),
         quarterRound(x[6], x[10], x[14], x[2]),
         quarterRound(x[11], x[15], x[3], x[7]),
         quarterRound(x[16], x[4], x[8], x[12]),
         LAMBDA t0, t1, t2, t3 :
             << t0[1], t1[4], t2[3], t3[2],
                t0[2], t1[1], t2[4], t3[3],
                t0[3], t1[2], t2[1], t3[4],
                t0[4], t1[3], t2[2], t3[1] >>))

\* a faulty variant: the row round first
doubleRoundRowFirst(xWords) == columnRound(rowRound(xWords))

doubleRound(xWords) == rowRound(columnRound(xWords))

\* ------------------------------------------------------------------------
\* Salsa20.core: little-endian codec and hash
\* ------------------------------------------------------------------------

\* b0 + 2^8 b1 + 2^16 b2 + 2^24 b3, kept mod 2^32 by the Uint32Array
littleEndian(byte0, byte1, byte2, byte3) ==
    LET l == byte0 + (256 * byte1)
        h == byte2 + (256 * byte3) + (l \div 65536)
    IN  Word(h % 65536, l % 65536)

\* a faulty variant: the most significant byte first
littleEndianInverseReversed(word) ==
    Let(word, LAMBDA w :
        << (w.hi \div 256) % 256, w.hi % 256, (w.lo \div 256) % 256, w.lo % 256 >>)

littleEndianInverse(word) ==
    Let(word, LAMBDA w :
        << w.lo % 256, (w.lo \div 256) % 256, w.hi % 256, (w.hi \div 256) % 256 >>)

outputByteLength == 64

\* the number of doubleround applications of the loop in hash
HashRounds == 10

\* the typed array with the elements of f, in index order
TypedArray(f) == f \o <<>>

RECURSIVE HashRoundLoop(_, _)
\* for (var i = 0; i < 10; i++) zWords = this.doubleRound(zWords), from i on
HashRoundLoop(zWords, i) ==
    IF i < HashRounds
    THEN Let(doubleRound(zWords), LAMBDA z : HashRoundLoop(z, i + 1))
    ELSE zWords

\* Faulty variant of hash: the rounds work on xWords itself, so the words
\* added at the end are the transformed ones
hashRoundsInPlace(xBytes) ==
    Let(xBytes, LAMBDA x :
    Let(TypedArray([j \in 1..(outputByteLength \div 4) |->
            littleEndian(x[(4 * j) - 3], x[(4 * j) - 2], x[(4 * j) - 1], x[4 * j])]),
        LAMBDA xWords :
    Let(HashRoundLoop(xWords, 0), LAMBDA zWords :
    Let(TypedArray([i \in 1..16 |-> littleEndianInverse(sumWords(zWords[i], zWords[i]))]),
        LAMBDA inverseEndianBytes :
            TypedArray([r \in 1..outputByteLength |->
                inverseEndianBytes[((r - 1) \div 4) + 1][((r - 1) % 4) + 1]])))))

\* xBytes[i] of the program is x[i + 1] here, xWords[j] is xWords[j + 1]
hash(xBytes) ==
    Let(xBytes, LAMBDA x :
    \* for (i = 0, j = 0; i < 64; i += 4, j++) xWords[j] = littleEndian(x[i] .. x[i + 3])
    Let(TypedArray([j \in 1..(outputByteLength \div 4) |->
            littleEndian(x[(4 * j) - 3], x[(4 * j) - 2], x[(4 * j) - 1], x[4 * j])]),
        LAMBDA xWords :
    \* var zWords = xWords, then the ten double rounds
    Let(HashRoundLoop(xWords, 0), LAMBDA zWords :
    \* for (resultIndex = 0, i = 0; i < 16; resultIndex += 4, i++)
    Let(TypedArray([i \in 1..16 |-> littleEndianInverse(sumWords(zWords[i], xWords[i]))]),
        LAMBDA inverseEndianBytes :
            TypedArray([r \in 1..outputByteLength |->
                inverseEndianBytes[((r - 1) \div 4) + 1][((r - 1) % 4) + 1]])))))

\* ------------------------------------------------------------------------
\* JavaScript Numbers with an integral value
\*   [neg, mag]: mag = <<d0, d1, d2, d3>> stands for
\*   d0 + d1 * 65536 + d2 * 65536^2 + d3 * 65536^3; zero has neg = FALSE
\* ------------------------------------------------------------------------

\* the magnitude of a small integer i >= 0
MagOf(i) == <<i % 65536, i \div 65536, 0, 0>>

MagZero == <<0, 0, 0, 0>>

MagAdd(a, b) ==
    Let2(a, b, LAMBDA x, y :
    Let(x[1] + y[1], LAMBDA s0 :
    Let(x[2] + y[2] + (s0 \div 65536), LAMBDA s1 :
    Let(x[3] + y[3] + (s1 \div 65536), LAMBDA s2 :
    Let(x[4] + y[4] + (s2 \div 65536), LAMBDA s3 :
        <<s0 % 65536, s1 % 65536, s2 % 65536, s3 % 65536>>)))))

\* a - b for a >= b (a borrow is a quotient of -1)
MagSub(a, b) ==
    Let2(a, b, LAMBDA x, y :
    Let(x[1] - y[1], LAMBDA s0 :
    Let((x[2] - y[2]) + (s0 \div 65536), LAMBDA s1 :
    Let((x[3] - y[3]) + (s1 \div 65536), LAMBDA s2 :
    Let((x[4] - y[4]) + (s2 \div 65536), LAMBDA s3 :
        <<s0 % 65536, s1 % 65536, s2 % 65536, s3 % 65536>>)))))

MagLess(a, b) ==
    Let2(a, b, LAMBDA x, y :
        \/ x[4] < y[4]
        \/ x[4] = y[4] /\ x[3] < y[3]
        \/ x[4] = y[4] /\ x[3] = y[3] /\ x[2] < y[2]
        \/ x[4] = y[4] /\ x[3] = y[3] /\ x[2] = y[2] /\ x[1] < y[1])

\* a * k for a small k > 0
MagMul(a, k) ==
    Let(a, LAMBDA x :
    Let(x[1] * k, LAMBDA p0 :
    Let((x[2] * k) + (p0 \div 65536), LAMBDA p1 :
    Let((x[3] * k) + (p1 \div 65536), LAMBDA p2 :
    Let((x[4] * k) + (p2 \div 65536), LAMBDA p3 :
        <<p0 % 65536, p1 % 65536, p2 % 65536, p3 % 65536>>)))))

\* the number of significant bits of a limb
LimbBits(d) ==
    IF d = 0 THEN 0
    ELSE CHOOSE n \in 1..16 : Pow2(n - 1) <= d /\ d < Pow2(n)

\* The double nearest to an integer of at most 64 bits (round half to even):
\* a double keeps 53 significant bits, so a magnitude whose top limb has more
\* than 5 bits loses its low bits
RoundDouble(mag) ==
    Let(mag, LAMBDA m :
    Let(LimbBits(m[4]) - 5, LAMBDA shift :
        IF shift <= 0 THEN m
        ELSE Let2(Pow2(shift), m[1] % Pow2(shift), LAMBDA unit, rem :
             Let(MagSub(m, MagOf(rem)), LAMBDA down :
                 IF rem = 0 THEN m
                 ELSE IF (2 * rem) < unit THEN down
                 ELSE IF (2 * rem) > unit THEN MagAdd(down, MagOf(unit))
                 ELSE IF ((m[1] \div unit) % 2) = 1 THEN MagAdd(down, MagOf(unit))
                 ELSE down))))

JsInt(n, m) == Let(m, LAMBDA mag : [neg |-> n /\ mag # MagZero, mag |-> mag])

\* the Number with the value of a small integer i >= 0
NumOf(i) == JsInt(FALSE, MagOf(i))

\* x + y, rounded as the addition of two doubles is
JsAdd(x, y) ==
    Let2(x, y, LAMBDA a, b :
        IF a.neg = b.neg THEN JsInt(a.neg, RoundDouble(MagAdd(a.mag, b.mag)))
        ELSE IF MagLess(a.mag, b.mag) THEN JsInt(b.neg, RoundDouble(MagSub(b.mag, a.mag)))
        ELSE JsInt(a.neg, RoundDouble(MagSub(a.mag, b.mag))))

\* x - y
JsSub(x, y) == Let(y, LAMBDA b : JsAdd(x, JsInt(~b.neg, b.mag)))

\* x * k for a small k > 0
JsMul(x, k) == Let(x, LAMBDA a : JsInt(a.neg, RoundDouble(MagMul(a.mag, k))))

\* x < y
JsLess(x, y) ==
    Let2(x, y, LAMBDA a, b :
        IF a.neg /\ ~b.neg THEN TRUE
        ELSE IF ~a.neg /\ b.neg THEN FALSE
        ELSE IF a.neg THEN MagLess(b.mag, a.mag)
        ELSE MagLess(a.mag, b.mag))

\* Math.pow(2, 53) - 1
maxInteger == JsInt(FALSE, <<65535, 65535, 65535, 31>>)

\* ------------------------------------------------------------------------
\* Strings (sequences of UTF-16 code units) and hexadecimal conversions
\* ------------------------------------------------------------------------

\* the character of a hexadecimal digit d in 0..15, as toString(16) writes it
HexChar(d) == IF d < 10 THEN 48 + d ELSE 87 + d

\* the value of a character as a digit in radix 16, or -1
HexDigitValue(c) ==
    IF 48 <= c /\ c <= 57 THEN c - 48
    ELSE IF 97 <= c /\ c <= 102 THEN c - 87
    ELSE IF 65 <= c /\ c <= 70 THEN c - 55
    ELSE -1

\* the code units that parseInt skips at the start (white space, line ends)
WhiteSpace ==
    {9, 10, 11, 12, 13, 32, 160, 5760, 8232, 8233, 8239, 8287, 12288, 65279}
        \cup (8192..8202)

RECURSIVE DropWhiteSpace(_)
DropWhiteSpace(s) ==
    Let(s, LAMBDA t :
        IF t # <<>> /\ t[1] \in WhiteSpace THEN DropWhiteSpace(Tail(t)) ELSE t)

\* the result of parseInt: an integer, or NaN
IntResult(v) == [nan |-> FALSE, val |-> v]

NaNResult == [nan |-> TRUE, val |-> 0]

RECURSIVE DigitsValue(_, _, _)
\* the value of the longest prefix of digits of s, acc being the value so
\* far and any the fact that a digit was read; NaN when there is no digit
DigitsValue(s, acc, any) ==
    Let2(s, acc, LAMBDA t, a :
        IF t # <<>> /\ HexDigitValue(t[1]) >= 0
        THEN DigitsValue(Tail(t), (16 * a) + HexDigitValue(t[1]), TRUE)
        ELSE IF any THEN IntResult(a) ELSE NaNResult)

\* parseInt(s, 16) for a string of at most two code units, as hexToBytes
\* calls it: white space, a sign, the prefix 0x, then the digits
ParseIntHex(s) ==
    Let(DropWhiteSpace(s), LAMBDA t :
    Let(IF t # <<>> /\ t[1] \in {43, 45} THEN Tail(t) ELSE t, LAMBDA u :
    Let(IF Len(u) >= 2 /\ u[1] = 48 /\ u[2] \in {120, 88}
        THEN SubSeq(u, 3, Len(u)) ELSE u, LAMBDA v :
    Let(DigitsValue(v, 0, FALSE), LAMBDA d :
        IF d.nan THEN NaNResult
        ELSE IntResult((IF t # <<>> /\ t[1] = 45 THEN -1 ELSE 1) * d.val)))))

\* the element a Uint8Array keeps when the result r of parseInt is stored
ToUint8(r) == IF r.nan THEN 0 ELSE r.val % 256

\* hexToBytes: new ArrayBuffer(length / 2) drops the fraction, and a store
\* past the end of the typed array is ignored
hexToBytes(hexString) ==
    Let(hexString, LAMBDA hex :
        TypedArray([byteIndex \in 1..(Len(hex) \div 2) |->
            ToUint8(ParseIntHex(SubSeq(hex, (2 * byteIndex) - 1, 2 * byteIndex)))]))

RECURSIVE PadLoop(_, _, _, _)
\* for (i = 0; i < charsToAdd; i++) inputString = padCharacter + inputString,
\* charsToAdd being the quotient num / den
PadLoop(inputString, padCharacter, i, frac) ==
    Let(inputString, LAMBDA input :
        IF (i * frac.den) < frac.num
        THEN PadLoop(padCharacter \o input, padCharacter, i + 1, frac)
        ELSE input)

leftPadding(inputString, padCharacter, totalCharacters) ==
    Let(inputString, LAMBDA input :
        IF input = <<>> \/ padCharacter = <<>> \/ Len(input) >= totalCharacters
        THEN input
        ELSE PadLoop(input, padCharacter, 0,
                     [num |-> totalCharacters - Len(input), den |-> Len(padCharacter)]))

\* the hexadecimal digits of a limb, most significant first
LimbHex(d) ==
    << HexChar(d \div 4096), HexChar((d \div 256) % 16),
       HexChar((d \div 16) % 16), HexChar(d % 16) >>

RECURSIVE DropLeadingZeros(_)
DropLeadingZeros(s) ==
    Let(s, LAMBDA t : IF Len(t) > 1 /\ t[1] = 48 THEN DropLeadingZeros(Tail(t)) ELSE t)

\* num.toString(16) for an integral Number
NumToString16(num) ==
    Let(num, LAMBDA n :
    Let(DropLeadingZeros(LimbHex(n.mag[4]) \o LimbHex(n.mag[3])
                         \o LimbHex(n.mag[2]) \o LimbHex(n.mag[1])),
        LAMBDA digits : IF n.neg THEN <<45>> \o digits ELSE digits))

\* a faulty variant: the hexadecimal string is not padded
numToEightByteArrayUnpadded(num) == hexToBytes(NumToString16(num))

numToEightByteArray(num) ==
    LET counterHex       == NumToString16(num)
        paddedCounterHex == leftPadding(counterHex, <<48>>, 16)
    IN  hexToBytes(paddedCounterHex)

\* leftPadding(byte.toString(16), '0', 2): the two symbols of one byte
ByteHex(byte) ==
    leftPadding(DropLeadingZeros(<<HexChar(byte \div 16), HexChar(byte % 16)>>), <<48>>, 2)

\* the symbols of every byte of byteArray, in index order
bytesToHex(byteArray) ==
    Let(byteArray, LAMBDA bytes :
        TypedArray([k \in 1..(2 * Len(bytes)) |->
            ByteHex(bytes[(k + 1) \div 2])[((k - 1) % 2) + 1]]))

\* ------------------------------------------------------------------------
\* Salsa20.core: expansion, keystream generation, encryption
\* ------------------------------------------------------------------------

\* new Uint8Array(n): n zero bytes
ZeroBytes(n) == TypedArray([i \in 1..n |-> 0])

\* The array arrayToFill after updateArray(arrayToFill, arrayToFillFrom,
\* startIndex); a store past the end of a typed array is ignored
updateArray(arrayToFill, arrayToFillFrom, startIndex) ==
    Let2(arrayToFill, arrayToFillFrom, LAMBDA fill, from :
        TypedArray([i \in 1..Len(fill) |->
            IF startIndex < i /\ i <= startIndex + Len(from)
            THEN from[i - startIndex]
            ELSE fill[i]]))

\* tau0 .. tau3, "expand 16-byte k"
constants16 ==
    << <<101, 120, 112, 97>>, <<110, 100, 32, 49>>,
       <<54, 45, 98, 121>>, <<116, 101, 32, 107>> >>

\* sigma0 .. sigma3, "expand 32-byte k"
constants32 ==
    << <<101, 120, 112, 97>>, <<110, 100, 32, 51>>,
       <<50, 45, 98, 121>>, <<116, 101, 32, 107>> >>

\* a faulty variant: the constants of the 16-byte key for both key sizes
ExpansionInputOneConstant(nonce, key0, key1) ==
    Let2(key0, key1, LAMBDA k0, k1 :
        updateArray(updateArray(updateArray(updateArray(updateArray(updateArray(
            updateArray(ZeroBytes(64), constants16[1], 0), k0, 4),
            constants16[2], 20), nonce, 24), constants16[3], 40),
            IF Len(k1) # 0 THEN k1 ELSE k0, 44),
            constants16[4], 60))

\* a faulty variant: key0 fills both key slots whatever key1 is
ExpansionInputKey0Twice(nonce, key0, key1) ==
    Let(key0, LAMBDA k0 :
        updateArray(updateArray(updateArray(updateArray(updateArray(updateArray(
            updateArray(ZeroBytes(64), constants32[1], 0), k0, 4),
            constants32[2], 20), nonce, 24), constants32[3], 40), k0, 44),
            constants32[4], 60))

\* the 64 bytes that expansion hands to hash
ExpansionInput(nonce, key0, key1) ==
    Let2(key0, key1, LAMBDA k0, k1 :
        IF Len(k1) # 0
        THEN updateArray(updateArray(updateArray(updateArray(updateArray(updateArray(
                 updateArray(ZeroBytes(64), constants32[1], 0), k0, 4),
                 constants32[2], 20), nonce, 24), constants32[3], 40), k1, 44),
                 constants32[4], 60)
        ELSE updateArray(updateArray(updateArray(updateArray(updateArray(updateArray(
                 updateArray(ZeroBytes(64), constants16[1], 0), k0, 4),
                 constants16[2], 20), nonce, 24), constants16[3], 40), k0, 44),
                 constants16[4], 60))

expansion(nonce, key0, key1) == hash(ExpansionInput(nonce, key0, key1))

\* key[i] of a typed array: undefined past the end, stored as 0
ByteAt(key, i) == IF i < Len(key) THEN key[i + 1] ELSE 0

\* Faulty variant of splitKey: the second half starts one byte early
splitKeyOverlapping(key) ==
    Let(key, LAMBDA k :
        IF Len(k) = 16
        THEN [key0 |-> k, key1 |-> <<>>]
        ELSE [key0 |-> TypedArray([n \in 1..16 |-> ByteAt(k, n - 1)]),
              key1 |-> TypedArray([n \in 1..16 |-> ByteAt(k, 15 + (n - 1))])])

splitKey(key) ==
    Let(key, LAMBDA k :
        IF Len(k) = 16
        THEN [key0 |-> k, key1 |-> <<>>]
        ELSE [key0 |-> TypedArray([n \in 1..16 |-> ByteAt(k, n - 1)]),
              key1 |-> TypedArray([n \in 1..16 |-> ByteAt(k, 16 + (n - 1))])])

\* Faulty variant of NumBlocks: Math.floor(lengthRequired / 64) + 1
NumBlocksFloorPlusOne(lengthRequired) == (lengthRequired \div outputByteLength) + 1

\* a faulty variant: Math.floor(lengthRequired / 64)
NumBlocksFloor(lengthRequired) == lengthRequired \div outputByteLength

\* Math.ceil(lengthRequired / 64) for an integer lengthRequired >= 0
NumBlocks(lengthRequired) == (lengthRequired + (outputByteLength - 1)) \div outputByteLength

\* The variables of the block loop of generateKeystream
KeystreamLoopState(keystreamBytes, counterAndNonceBytes, block, counter) ==
    [keystreamBytes |-> keystreamBytes, counterAndNonceBytes |-> counterAndNonceBytes,
     block |-> block, counter |-> counter]

\* Faulty variant of KeystreamLoopBody: the block index is encoded in place
\* of the counter
KeystreamLoopBodyBlockIndex(st, keys) ==
    Let(st, LAMBDA s :
    Let(updateArray(s.counterAndNonceBytes,
                    numToEightByteArray(NumOf(s.block \div 64)), 8),
        LAMBDA counterAndNonceBytes :
    Let(expansion(counterAndNonceBytes, keys.key0, keys.key1), LAMBDA expansionBytes :
        KeystreamLoopState(updateArray(s.keystreamBytes, expansionBytes, s.block),
                           counterAndNonceBytes,
                           s.block + 64,
                           JsAdd(s.counter, NumOf(1))))))

\* one pass through the body of the block loop, with block += 64, counter++
KeystreamLoopBody(st, keys) ==
    Let(st, LAMBDA s :
    Let(updateArray(s.counterAndNonceBytes, numToEightByteArray(s.counter), 8),
        LAMBDA counterAndNonceBytes :
    Let(expansion(counterAndNonceBytes, keys.key0, keys.key1), LAMBDA expansionBytes :
        KeystreamLoopState(updateArray(s.keystreamBytes, expansionBytes, s.block),
                           counterAndNonceBytes,
                           s.block + 64,
                           JsAdd(s.counter, NumOf(1))))))

RECURSIVE KeystreamLoop(_, _, _)
\* for (block = 0; counter < maxCounter; block += 64, counter++) { body }
KeystreamLoop(st, keys, maxCounter) ==
    Let(st, LAMBDA s :
        IF JsLess(s.counter, maxCounter)
        THEN KeystreamLoop(KeystreamLoopBody(s, keys), keys, maxCounter)
        ELSE s)

\* the loop variables when the loop is entered
KeystreamLoopInit(lengthRequired, nonce, counter) ==
    KeystreamLoopState(ZeroBytes(NumBlocks(lengthRequired) * outputByteLength),
                       updateArray(ZeroBytes(16), nonce, 0),
                       0, counter)

\* the loop variables when generateKeystream leaves the loop
KeystreamRun(key, lengthRequired, nonce, counter) ==
    Let2(splitKey(key), JsAdd(counter, NumOf(NumBlocks(lengthRequired))),
         LAMBDA keys, maxCounter :
             KeystreamLoop(KeystreamLoopInit(lengthRequired, nonce, counter),
                           keys, maxCounter))

generateKeystream(key, lengthRequired, nonce, counter) ==
    KeystreamRun(key, lengthRequired, nonce, counter).keystreamBytes

\* The locals of generateKeystream when its block loop is entered; written[i]
\* counts the stores into keystreamBytes[i - 1]
KeystreamLocals(key, lengthRequired, nonce, counter) ==
    [keys |-> splitKey(key),
     numBlocksToGenerate |-> NumBlocks(lengthRequired),
     keystreamBytes |-> ZeroBytes(NumBlocks(lengthRequired) * outputByteLength),
     maxCounter |-> JsAdd(counter, NumOf(NumBlocks(lengthRequired))),
     counterAndNonceBytes |-> updateArray(ZeroBytes(16), nonce, 0),
     block |-> 0,
     counter |-> counter,
     written |-> ZeroBytes(NumBlocks(lengthRequired) * outputByteLength)]

\* counter < maxCounter, the test of the block loop
KeystreamLoopTest(l) == JsLess(l.counter, l.maxCounter)

\* the first two statements of the loop body: the counter is encoded into
\* bytes 8..15 of counterAndNonceBytes
KeystreamEncodeCounter(l) ==
    [l EXCEPT !.counterAndNonceBytes = updateArray(@, numToEightByteArray(l.counter), 8)]

\* the stores of updateArray(arrayToFill, arrayToFillFrom, startIndex), added
\* to the counts in written
Stores(written, length, startIndex) ==
    TypedArray([i \in 1..Len(written) |->
        IF startIndex < i /\ i <= startIndex + length THEN written[i] + 1 ELSE written[i]])

\* a faulty variant: block++ in place of block += 64
KeystreamExpandBlockByOne(l) ==
    Let(expansion(l.counterAndNonceBytes, l.keys.key0, l.keys.key1),
        LAMBDA expansionBytes :
            [l EXCEPT !.keystreamBytes = updateArray(@, expansionBytes, l.block),
                      !.written = Stores(@, Len(expansionBytes), l.block),
                      !.block = @ + 1,
                      !.counter = JsAdd(@, NumOf(1))])

\* the rest of the loop body, then block += 64, counter++
KeystreamExpand(l) ==
    Let(expansion(l.counterAndNonceBytes, l.keys.key0, l.keys.key1),
        LAMBDA expansionBytes :
            [l EXCEPT !.keystreamBytes = updateArray(@, expansionBytes, l.block),
                      !.written = Stores(@, Len(expansionBytes), l.block),
                      !.block = @ + 64,
                      !.counter = JsAdd(@, NumOf(1))])

\* Faulty variant of xorKeystreamAndMessage: the bytes are added
xorKeystreamAndMessageAdding(keystreamBytes, messageBytes, messageLength) ==
    Let2(keystreamBytes, messageBytes, LAMBDA keystream, message :
        TypedArray([i \in 1..messageLength |->
            (ByteAt(keystream, i - 1) + ByteAt(message, i - 1)) % 256]))

\* keystreamBytes[i] ^ messageBytes[i] stored in a Uint8Array; an index past
\* the end of a typed array reads undefined, which ^ takes as 0
xorKeystreamAndMessage(keystreamBytes, messageBytes, messageLength) ==
    Let2(keystreamBytes, messageBytes, LAMBDA keystream, message :
        TypedArray([i \in 1..messageLength |->
            BitXor(ByteAt(keystream, i - 1), ByteAt(message, i - 1))]))

\* Faulty variant of encryption: the keystream is taken from its second byte
encryptionShifted(key, message, nonce, counter) ==
    Let(message, LAMBDA m :
        xorKeystreamAndMessage(
            Tail(generateKeystream(key, Len(m), nonce, counter) \o <<0>>), m, Len(m)))

encryption(key, message, nonce, counter) ==
    Let(message, LAMBDA m :
        xorKeystreamAndMessage(generateKeystream(key, Len(m), nonce, counter), m, Len(m)))

\* ------------------------------------------------------------------------
\* JavaScript values handed to the public functions, and what a call yields
\* ------------------------------------------------------------------------

\* A value is a record of its type, its elements (the UTF-16 code units of a
\* string, the bytes of a Uint8Array, the elements of an Array) and, for a
\* number, its class ("int" for an integer value, "frac" for a value with a
\* fraction, "NaN") and its integer part.
JsValue(type, seq, cls, num) == [type |-> type, seq |-> seq, cls |-> cls, num |-> num]

Undefined == JsValue("undefined", <<>>, "int", NumOf(0))
JsString(seq) == JsValue("string", seq, "int", NumOf(0))
Uint8ArrayOf(seq) == JsValue("Uint8Array", seq, "int", NumOf(0))
ArrayOf(seq) == JsValue("Array", seq, "int", NumOf(0))
JsNumber(num) == JsValue("number", <<>>, "int", num)
JsFraction(num) == JsValue("number", <<>>, "frac", num)
JsNaN == JsValue("number", <<>>, "NaN", NumOf(0))

\* a return value, or the exception thrown
Return(value) == [threw |-> FALSE, error |-> "", value |-> value]
Throw(error) == [threw |-> TRUE, error |-> error, value |-> Undefined]

\* The options object: a property is "absent", 'hex', or some other value
Options(inputTextType, returnType) ==
    [inputTextType |-> inputTextType, returnType |-> returnType]

\* ------------------------------------------------------------------------
\* UTF-8 conversions of Salsa20.core.util
\* ------------------------------------------------------------------------

IsHighSurrogate(c) == 55296 <= c /\ c <= 56319
IsLowSurrogate(c) == 56320 <= c /\ c <= 57343
IsContinuation(b) == 128 <= b /\ b <= 191

\* the UTF-8 bytes of a code point
Utf8Bytes(cp) ==
    IF cp < 128 THEN <<cp>>
    ELSE IF cp < 2048 THEN <<192 + (cp \div 64), 128 + (cp % 64)>>
    ELSE IF cp < 65536
    THEN <<224 + (cp \div 4096), 128 + ((cp \div 64) % 64), 128 + (cp % 64)>>
    ELSE <<240 + (cp \div 262144), 128 + ((cp \div 4096) % 64),
           128 + ((cp \div 64) % 64), 128 + (cp % 64)>>

RECURSIVE Flatten(_, _, _)
\* pieces[lo] \o ... \o pieces[hi]
Flatten(pieces, lo, hi) ==
    Let(pieces, LAMBDA p :
        IF lo > hi THEN <<>>
        ELSE IF lo = hi THEN p[lo]
        ELSE Flatten(p, lo, (lo + hi) \div 2) \o Flatten(p, ((lo + hi) \div 2) + 1, hi))

\* s[k] is half of a surrogate pair
PairedHigh(s, k) == IsHighSurrogate(s[k]) /\ k < Len(s) /\ IsLowSurrogate(s[k + 1])
PairedLow(s, k) == IsLowSurrogate(s[k]) /\ k > 1 /\ IsHighSurrogate(s[k - 1])

\* unescape(encodeURIComponent(unicodeString)) turned into bytes: the UTF-8
\* bytes of the code points of the string; encodeURIComponent throws a
\* URIError at a surrogate that is not half of a pair
utf8StringToBytes(unicodeString) ==
    Let(unicodeString, LAMBDA s :
        IF \E k \in 1..Len(s) :
               \/ IsHighSurrogate(s[k]) /\ ~PairedHigh(s, k)
               \/ IsLowSurrogate(s[k]) /\ ~PairedLow(s, k)
        THEN Throw("URIError")
        ELSE Return(Uint8ArrayOf(Flatten(
                 TypedArray([k \in 1..Len(s) |->
                     IF PairedHigh(s, k)
                     THEN Utf8Bytes(65536 + ((s[k] - 55296) * 1024) + (s[k + 1] - 56320))
                     ELSE IF PairedLow(s, k) THEN <<>>
                     ELSE Utf8Bytes(s[k])]),
                 1, Len(s)))))

\* the number of bytes of the UTF-8 sequence that a first byte announces, 0
\* for a byte that cannot start one
SequenceLength(b) ==
    IF b < 128 THEN 1
    ELSE IF 194 <= b /\ b <= 223 THEN 2
    ELSE IF 224 <= b /\ b <= 239 THEN 3
    ELSE IF 240 <= b /\ b <= 244 THEN 4
    ELSE 0

\* the code point of the well-formed UTF-8 sequence of n bytes at bytes[k],
\* or -1: a continuation byte is missing, the encoding is longer than the
\* code point needs, or it encodes a surrogate or a value above 0x10FFFF
CodePointAt(bytes, k, n) ==
    IF n = 0 \/ k + n - 1 > Len(bytes) THEN -1
    ELSE IF \E j \in 1..(n - 1) : ~IsContinuation(bytes[k + j]) THEN -1
    ELSE IF n = 1 THEN bytes[k]
    ELSE IF n = 2 THEN ((bytes[k] - 192) * 64) + (bytes[k + 1] - 128)
    ELSE IF n = 3
    THEN LET cp == ((bytes[k] - 224) * 4096) + ((bytes[k + 1] - 128) * 64)
                   + (bytes[k + 2] - 128)
         IN  IF cp < 2048 \/ (55296 <= cp /\ cp <= 57343) THEN -1 ELSE cp
    ELSE LET cp == ((bytes[k] - 240) * 262144) + ((bytes[k + 1] - 128) * 4096)
                   + ((bytes[k + 2] - 128) * 64) + (bytes[k + 3] - 128)
         IN  IF cp < 65536 \/ cp > 1114111 THEN -1 ELSE cp

\* the UTF-16 code units of a code point
CodeUnits(cp) ==
    IF cp < 65536 THEN <<cp>>
    ELSE <<55296 + ((cp - 65536) \div 1024), 56320 + ((cp - 65536) % 1024)>>

\* bytes[k] is a continuation byte of the sequence that starts d bytes before
Continues(bytes, k) ==
    \E d \in 1..3 :
        /\ k - d >= 1
        /\ SequenceLength(bytes[k - d]) > d
        /\ \A e \in 1..(d - 1) : IsContinuation(bytes[k - e])

\* Faulty variant of bytesToUtf8String: one character per byte, not decoded
bytesToUtf8StringUndecoded(bytes) == Return(JsString(bytes))

\* decodeURIComponent(escape(string)) for the string of one character per
\* byte: escape writes each byte that is not a letter, a digit or one of
\* @*_+-./ as %XX, and decodeURIComponent reads the escapes as UTF-8 and
\* throws a URIError where they are not well-formed UTF-8
bytesToUtf8String(bytes) ==
    Let(bytes, LAMBDA b :
        IF \E k \in 1..Len(b) :
               IF IsContinuation(b[k]) THEN ~Continues(b, k)
               ELSE CodePointAt(b, k, SequenceLength(b[k])) < 0
        THEN Throw("URIError")
        ELSE Return(JsString(Flatten(
                 TypedArray([k \in 1..Len(b) |->
                     IF IsContinuation(b[k]) THEN <<>>
                     ELSE CodeUnits(CodePointAt(b, k, SequenceLength(b[k])))]),
                 1, Len(b)))))

\* ------------------------------------------------------------------------
\* Validation of the arguments: parseKey, parseMessage, parseNonce, parseCounter
\* ------------------------------------------------------------------------

\* Faulty variant of parseKey: the length of the key is not checked
parseKeyAnyLength(key) ==
    IF key.type = "string" THEN Return(Uint8ArrayOf(hexToBytes(key.seq)))
    ELSE IF key.type # "Uint8Array" THEN Throw("Error")
    ELSE Return(key)

parseKey(key) ==
    IF key.type # "string" /\ key.type # "Uint8Array" THEN Throw("Error")
    ELSE Let(IF key.type = "string" THEN Uint8ArrayOf(hexToBytes(key.seq)) ELSE key,
             LAMBDA keyBytes :
                 IF Len(keyBytes.seq) = 16 \/ Len(keyBytes.seq) = 32
                 THEN Return(keyBytes)
                 ELSE Throw("Error"))

parseMessage(message, options) ==
    Let(IF message.type = "string"
        THEN IF options.inputTextType = "hex"
             THEN Return(Uint8ArrayOf(hexToBytes(message.seq)))
             ELSE utf8StringToBytes(message.seq)
        ELSE IF message.type # "Uint8Array" THEN Throw("Error")
        ELSE Return(message),
        LAMBDA parsed :
            IF parsed.threw THEN parsed
            ELSE IF JsLess(JsMul(maxInteger, outputByteLength),
                           NumOf(Len(parsed.value.seq)))
            THEN Throw("Error")
            ELSE parsed)

parseNonce(nonce) ==
    IF nonce.type = "Uint8Array" /\ Len(nonce.seq) = 8 THEN Return(nonce)
    ELSE IF nonce.type = "string" /\ Len(nonce.seq) = 16
    THEN Return(Uint8ArrayOf(hexToBytes(nonce.seq)))
    ELSE IF nonce.type = "number" /\ nonce.cls = "int" /\ ~nonce.num.neg
    THEN IF ~JsLess(maxInteger, nonce.num)
         THEN Return(Uint8ArrayOf(numToEightByteArray(nonce.num)))
         ELSE Throw("Error")
    ELSE Throw("Error")

\* Faulty variant of parseCounter: the counter itself is compared with the
\* largest integer, whatever the length of the message
parseCounterIgnoringLength(counter, messageLength) ==
    IF counter.type # "number" \/ counter.cls # "int" \/ counter.num.neg
    THEN Throw("Error")
    ELSE IF JsLess(maxInteger, counter.num) THEN Throw("Error")
    ELSE Return(counter)

\* messageLength is a Number that is an integer
parseCounter(counter, messageLength) ==
    IF counter.type # "number" \/ counter.cls # "int" \/ counter.num.neg
    THEN Throw("Error")
    ELSE LET maxKeystreamBytes ==
                 JsAdd(JsMul(JsSub(maxInteger, counter.num), outputByteLength),
                       NumOf(outputByteLength))
         IN  IF JsLess(maxKeystreamBytes, messageLength) THEN Throw("Error")
             ELSE Return(counter)

\* ------------------------------------------------------------------------
\* State: one call of the library at a time, and the call made before it
\* ------------------------------------------------------------------------

VARIABLES
    pc,      \* position of the running call: "idle", a step name, "returned", "threw"
    op,      \* the function that was called
    args,    \* its arguments
    locals,  \* the local variables of a wrapper function
    ret,     \* what the call returned or threw
    blocks,  \* number of keystream blocks a call of a wrapper has generated
    prev     \* the call before this one, for a pair of calls

vars == <<pc, op, args, locals, ret, blocks, prev>>

Args(key, message, length, nonce, counter, options) ==
    [key |-> key, message |-> message, length |-> length, nonce |-> nonce,
     counter |-> counter, options |-> options]

NoArgs == Args(<<>>, <<>>, 0, <<>>, NumOf(0), "none")
\* the locals of a wrapper: the parsed arguments, the keystream, the bytes
\* that core.encryption returns, and the statements completed so far
NoLocals == [key |-> Undefined, message |-> Undefined, nonce |-> Undefined,
             counter |-> Undefined, keystream |-> <<>>, bytes |-> <<>>, done |-> {}]
NoResult == <<>>
Call(o, a, l, r) == [op |-> o, args |-> a, locals |-> l, ret |-> r]
NoPrev == Call("none", NoArgs, NoLocals, NoResult)

Init ==
    /\ pc = "idle"
    /\ op = "none"
    /\ args = NoArgs
    /\ locals = NoLocals
    /\ ret = NoResult
    /\ blocks = 0
    /\ prev = NoPrev

\* ------------------------------------------------------------------------
\* Calls of Salsa20.core with arguments that meet its preconditions
\* ------------------------------------------------------------------------

MaxBlocks == 3
MaxSeek == 2
MaxHashPattern == 7

\* message and keystream lengths that end inside and at the end of each block
Lengths == {0} \cup {(64 * (b - 1)) + r : b \in 1..MaxBlocks, r \in {13, 53, 64}}
SeekLengths == {13, 64 * MaxBlocks}
LongLengths == {256, 257}

Pattern(n, a, b) == TypedArray([i \in 1..n |-> ((i * a) + b) % 256])

CoreKeys == {Pattern(16, 1, 0), Pattern(32, 1, 0)}
CoreNonces == {ZeroBytes(8), <<3, 1, 4, 1, 5, 9, 2, 6>>}
CoreCounters == {NumOf(0), NumOf(255), JsSub(maxInteger, NumOf(1))}
CoreMessages == {ZeroBytes(n) : n \in Lengths} \cup {Pattern(n, 7, 3) : n \in Lengths}
HashInputs == {Pattern(64, a, b) : a \in 0..MaxHashPattern, b \in {0, 101, 255}}

\* the last block counter of a keystream of this length is at most 2^53 - 1
CounterInRange(counter, length) ==
    ~JsLess(maxInteger, JsAdd(counter, NumOf(NumBlocks(length))))

CoreHash ==
    /\ pc = "idle"
    /\ \E x \in HashInputs :
        /\ args' = Args(<<>>, x, 64, <<>>, NumOf(0), "none")
        /\ ret' = hash(x)
    /\ op' = "hash"
    /\ pc' = "returned"
    /\ UNCHANGED <<locals, blocks, prev>>

CoreEncryption ==
    /\ pc = "idle"
    /\ \E key \in CoreKeys, message \in CoreMessages, nonce \in CoreNonces,
          counter \in CoreCounters :
        /\ CounterInRange(counter, Len(message))
        /\ args' = Args(key, message, Len(message), nonce, counter, "none")
        /\ ret' = encryption(key, message, nonce, counter)
    /\ op' = "encryption"
    /\ pc' = "returned"
    /\ UNCHANGED <<locals, blocks, prev>>

\* encryption called on what encryption returned, same key, nonce and counter
CoreEncryptionAgain ==
    /\ pc = "returned"
    /\ op = "encryption"
    /\ prev.op = "none"
    /\ args' = [args EXCEPT !.message = ret]
    /\ ret' = encryption(args.key, ret, args.nonce, args.counter)
    /\ prev' = Call(op, args, locals, ret)
    /\ UNCHANGED <<pc, op, locals, blocks>>

CoreGenerateKeystream ==
    /\ pc = "idle"
    /\ \E key \in CoreKeys, nonce \in CoreNonces, counter \in CoreCounters,
          lengthRequired \in Lengths \cup LongLengths :
        /\ lengthRequired \in LongLengths =>
              key = Pattern(32, 1, 0) /\ nonce = ZeroBytes(8) /\ counter = NumOf(0)
        /\ CounterInRange(counter, lengthRequired)
        /\ args' = Args(key, <<>>, lengthRequired, nonce, counter, "none")
        /\ ret' = generateKeystream(key, lengthRequired, nonce, counter)
    /\ op' = "generateKeystream"
    /\ pc' = "returned"
    /\ UNCHANGED <<locals, blocks, prev>>

\* generateKeystream called again, k blocks further on
CoreSeek ==
    /\ pc = "returned"
    /\ op = "generateKeystream"
    /\ prev.op = "none"
    /\ args.length \in SeekLengths
    /\ \E k \in 0..MaxSeek, lengthRequired \in SeekLengths :
        \E counter \in {JsAdd(args.counter, NumOf(k))} :
            /\ CounterInRange(counter, lengthRequired)
            /\ args' = [args EXCEPT !.counter = counter, !.length = lengthRequired]
            /\ ret' = generateKeystream(args.key, lengthRequired, args.nonce, counter)
    /\ prev' = Call(op, args, locals, ret)
    /\ UNCHANGED <<pc, op, locals, blocks>>

NextCore ==
    \/ CoreHash
    \/ CoreEncryption
    \/ CoreEncryptionAgain
    \/ CoreGenerateKeystream
    \/ CoreSeek

SpecCore == Init /\ [][NextCore]_vars

\* ------------------------------------------------------------------------
\* Calls of Salsa20.encrypt, Salsa20.decrypt and Salsa20.generateKeystream,
\* one statement at a time, and of parseKey and parseCounter
\* ------------------------------------------------------------------------

NoOptions == Options("absent", "absent")

Wrappers == {"encrypt", "decrypt", "generateKeystream"}

ApiKeys ==
    {Uint8ArrayOf(Pattern(16, 1, 0)), JsString(bytesToHex(Pattern(32, 1, 0))),
     Uint8ArrayOf(Pattern(15, 1, 0)), ArrayOf(Pattern(16, 1, 0))}

ApiMessages ==
    {Uint8ArrayOf(<<>>), Uint8ArrayOf(<<104, 195, 169>>), Uint8ArrayOf(<<255>>),
     Uint8ArrayOf(Pattern(65, 7, 3)), JsString(<<233, 33>>), JsString(<<55296>>),
     JsString(bytesToHex(Pattern(65, 7, 3))), ArrayOf(<<1, 2>>)}

ApiNonces ==
    {Uint8ArrayOf(<<3, 1, 4, 1, 5, 9, 2, 6>>), JsNumber(NumOf(5)),
     Uint8ArrayOf(Pattern(7, 1, 0))}

ApiCounters ==
    {JsNumber(NumOf(0)), JsNumber(JsSub(maxInteger, NumOf(1))), JsNumber(maxInteger),
     JsNumber(JsSub(NumOf(0), NumOf(1))), JsFraction(NumOf(1))}

ApiOptions == {Options(i, r) : i \in {"absent", "hex"}, r \in {"absent", "hex"}}

ApiLengths == {0, 53, (64 * MaxBlocks) - 51}

ParseKeyInputs ==
    ApiKeys \cup
    {Uint8ArrayOf(Pattern(n, 1, 0)) : n \in {0, 6, 17, 31, 32, 33}} \cup
    {JsString(bytesToHex(Pattern(n, 1, 0))) : n \in {0, 6, 15, 16, 33}} \cup
    {JsString(SubSeq(bytesToHex(Pattern(33, 1, 0)), 1, n)) : n \in {31, 33, 65}} \cup
    {JsString(<<>>), JsString(Pattern(16, 0, 97)), ArrayOf(Pattern(32, 1, 0)),
     JsNumber(NumOf(16)), Undefined}

\* 2^53 - 3 .. 2^53 - 1, 2^53, 2^53 + 2, and small counters
ParseCounterCounters ==
    {JsNumber(NumOf(n)) : n \in {0, 1}} \cup
    {JsNumber(JsSub(maxInteger, NumOf(n))) : n \in {0, 1, 2}} \cup
    {JsNumber(JsInt(FALSE, <<0, 0, 0, 32>>)), JsNumber(JsInt(FALSE, <<2, 0, 0, 32>>)),
     JsNumber(JsSub(NumOf(0), NumOf(1))), JsFraction(NumOf(1)), JsNaN,
     JsString(<<48>>), Undefined}

\* lengths about the block boundaries, and 2^59 - 64, 2^59, 2^59 + 128
ParseCounterLengths ==
    {NumOf(n) : n \in {0, 1, 64, 65, 128, 129, 192, 193}} \cup
    {JsInt(FALSE, <<65472, 65535, 65535, 2047>>), JsInt(FALSE, <<0, 0, 0, 2048>>),
     JsInt(FALSE, <<128, 0, 0, 2048>>)}

\* nonces of every accepted form and next to each: byte arrays of 0, 7, 8 and
\* 9 bytes, strings of 0, 15, 16 and 17 symbols, a string of 16 symbols that
\* are not hexadecimal digits, the integers 0, 5, 256, 2^53 - 1, 2^53, -1, a
\* fraction and NaN
ParseNonceInputs ==
    ApiNonces \cup
    {Uint8ArrayOf(Pattern(n, 255, 0)) : n \in {0, 8, 9}} \cup
    {JsString(Pattern(n, 0, 48) \o <<49>>) : n \in {14, 15, 16}} \cup
    {JsString(<<>>), JsString(bytesToHex(<<170, 187, 204, 221, 238, 255, 0, 17>>)),
     JsString(Pattern(16, 0, 122))} \cup
    {JsNumber(NumOf(n)) : n \in {0, 256}} \cup
    {JsNumber(maxInteger), JsNumber(JsInt(FALSE, <<0, 0, 0, 32>>)),
     JsNumber(JsSub(NumOf(0), NumOf(1))), JsFraction(NumOf(1)), JsNaN,
     ArrayOf(Pattern(8, 1, 0)), Undefined}

\* the public function begins: options = options || {}
Enter(o, a) ==
    /\ op' = o
    /\ args' = a
    /\ locals' = NoLocals
    /\ ret' = NoResult
    /\ blocks' = 0
    /\ pc' = "parseKey"

CallEncrypt ==
    /\ pc = "idle"
    /\ \E key \in ApiKeys, message \in ApiMessages, nonce \in ApiNonces,
          counter \in ApiCounters, options \in ApiOptions :
        Enter("encrypt", Args(key, message, 0, nonce, counter, options))
    /\ UNCHANGED prev

CallDecrypt ==
    /\ pc = "idle"
    /\ \E key \in ApiKeys, ciphertext \in ApiMessages, nonce \in ApiNonces,
          counter \in ApiCounters, options \in ApiOptions :
        Enter("decrypt", Args(key, ciphertext, 0, nonce, counter, options))
    /\ UNCHANGED prev

CallGenerateKeystream ==
    /\ pc = "idle"
    /\ \E key \in ApiKeys, length \in ApiLengths, nonce \in ApiNonces,
          counter \in ApiCounters, options \in ApiOptions :
        Enter("generateKeystream", Args(key, Undefined, length, nonce, counter, options))
    /\ UNCHANGED prev

\* decrypt called on what encrypt returned, with its key, nonce and counter
CallDecryptOfCiphertext ==
    /\ pc = "returned"
    /\ op = "encrypt"
    /\ prev.op = "none"
    /\ \E options \in ApiOptions :
        Enter("decrypt", [args EXCEPT !.message = ret.value, !.options = options])
    /\ prev' = Call(op, args, locals, ret)

\* a faulty variant: the exception is caught and undefined is returned
RaiseSwallowed(exception) ==
    /\ pc' = "returned"
    /\ ret' = Return(Undefined)
    /\ UNCHANGED <<op, args, locals, blocks, prev>>

\* a statement of a wrapper that throws ends the call
Raise(exception) ==
    /\ pc' = "threw"
    /\ ret' = exception
    /\ UNCHANGED <<op, args, locals, blocks, prev>>

StepParseKey ==
    /\ pc = "parseKey"
    /\ op \in Wrappers
    /\ \E key \in {parseKey(args.key)} :
           IF key.threw THEN Raise(key)
           ELSE /\ locals' = [locals EXCEPT !.key = key.value, !.done = @ \cup {"key"}]
                /\ pc' = IF op = "generateKeystream" THEN "parseNonce" ELSE "parseMessage"
                /\ UNCHANGED <<op, args, ret, blocks, prev>>

StepParseMessage ==
    /\ pc = "parseMessage"
    /\ \E message \in {parseMessage(args.message, args.options)} :
           IF message.threw THEN Raise(message)
           ELSE /\ locals' = [locals EXCEPT !.message = message.value,
                                            !.done = @ \cup {"message"}]
                /\ pc' = "parseNonce"
                /\ UNCHANGED <<op, args, ret, blocks, prev>>

StepParseNonce ==
    /\ pc = "parseNonce"
    /\ \E nonce \in {parseNonce(args.nonce)} :
           IF nonce.threw THEN Raise(nonce)
           ELSE /\ locals' = [locals EXCEPT !.nonce = nonce.value, !.done = @ \cup {"nonce"}]
                /\ pc' = "parseCounter"
                /\ UNCHANGED <<op, args, ret, blocks, prev>>

\* Faulty variant of LengthArgument: the length of the message as it was
\* handed in, a string not yet turned into bytes
LengthArgumentUnparsed ==
    IF op = "generateKeystream" THEN args.length ELSE Len(args.message.seq)

\* the length that the wrapper hands to parseCounter and to the core:
\* message.length of the parsed message, or the length argument
LengthArgument ==
    IF op = "generateKeystream" THEN args.length ELSE Len(locals.message.seq)

StepParseCounter ==
    /\ pc = "parseCounter"
    /\ \E counter \in {parseCounter(args.counter, NumOf(LengthArgument))} :
           IF counter.threw THEN Raise(counter)
           ELSE /\ locals' = [locals EXCEPT !.counter = counter.value,
                                            !.done = @ \cup {"counter"}]
                /\ pc' = "keystream"
                /\ UNCHANGED <<op, args, ret, blocks, prev>>

\* core.generateKeystream, called by the wrapper or by core.encryption
StepKeystream ==
    /\ pc = "keystream"
    /\ \E run \in {KeystreamRun(locals.key.seq, LengthArgument, locals.nonce.seq,
                                locals.counter.num)} :
           /\ locals' = [locals EXCEPT !.keystream = run.keystreamBytes,
                                       !.done = @ \cup {"keystream"}]
           /\ blocks' = run.block \div outputByteLength
    /\ pc' = IF op = "generateKeystream" THEN "output" ELSE "xor"
    /\ UNCHANGED <<op, args, ret, prev>>

\* the rest of core.encryption
StepXor ==
    /\ pc = "xor"
    /\ locals' = [locals EXCEPT
           !.bytes = xorKeystreamAndMessage(locals.keystream, locals.message.seq,
                                            Len(locals.message.seq)),
           !.done = @ \cup {"xor"}]
    /\ pc' = "output"
    /\ UNCHANGED <<op, args, ret, blocks, prev>>

\* the return statement of the wrapper
StepOutput ==
    /\ pc = "output"
    /\ \E bytes \in {IF op = "generateKeystream" THEN locals.keystream ELSE locals.bytes} :
       \E result \in {IF args.options.returnType = "hex"
                       THEN Return(JsString(bytesToHex(bytes)))
                       ELSE IF op = "decrypt" THEN bytesToUtf8String(bytes)
                       ELSE Return(Uint8ArrayOf(bytes))} :
           /\ ret' = result
           /\ pc' = IF result.threw THEN "threw" ELSE "returned"
    /\ UNCHANGED <<op, args, locals, blocks, prev>>

CallParseKey ==
    /\ pc = "idle"
    /\ \E key \in ParseKeyInputs :
        /\ args' = Args(key, Undefined, 0, Undefined, Undefined, NoOptions)
        /\ ret' = parseKey(key)
    /\ op' = "parseKey"
    /\ pc' = IF ret'.threw THEN "threw" ELSE "returned"
    /\ UNCHANGED <<locals, blocks, prev>>

CallParseCounter ==
    /\ pc = "idle"
    /\ \E counter \in ParseCounterCounters, messageLength \in ParseCounterLengths :
        /\ args' = Args(Undefined, Undefined, messageLength, Undefined, counter, NoOptions)
        /\ ret' = parseCounter(counter, messageLength)
    /\ op' = "parseCounter"
    /\ pc' = IF ret'.threw THEN "threw" ELSE "returned"
    /\ UNCHANGED <<locals, blocks, prev>>

CallParseNonce ==
    /\ pc = "idle"
    /\ \E nonce \in ParseNonceInputs :
        /\ args' = Args(Undefined, Undefined, 0, nonce, Undefined, NoOptions)
        /\ ret' = parseNonce(nonce)
    /\ op' = "parseNonce"
    /\ pc' = IF ret'.threw THEN "threw" ELSE "returned"
    /\ UNCHANGED <<locals, blocks, prev>>

NextApi ==
    \/ CallEncrypt
    \/ CallDecrypt
    \/ CallGenerateKeystream
    \/ CallDecryptOfCiphertext
    \/ StepParseKey
    \/ StepParseMessage
    \/ StepParseNonce
    \/ StepParseCounter
    \/ StepKeystream
    \/ StepXor
    \/ StepOutput
    \/ CallParseKey
    \/ CallParseCounter
    \/ CallParseNonce

SpecApi == Init /\ [][NextApi]_vars

\* ------------------------------------------------------------------------
\* Calls of the functions that the core is made of, one function per call
\* ------------------------------------------------------------------------

MaxWords == 4

\* the small integers 0 .. MaxNum are arguments of numToEightByteArray
MaxNum == 20

\* the arguments of such a call: words, bytes, a number
PrimArgs(words, bytes, n) == [words |-> words, bytes |-> bytes, n |-> n]

\* 0, 1, 2^31, 2^32 - 1, 2^31 - 1, 0xc0a8787e, 0x9fd1161d, 0xffff and words
\* with mixed bits
WordInputs ==
    {Word(0, 0), Word(0, 1), Word(32768, 0), Word(65535, 65535), Word(32767, 65535),
     Word(49320, 30846), Word(40913, 5661), Word(0, 65535)} \cup
    {Word((k * 40503) % 65536, ((k * 25173) + 13849) % 65536) : k \in 1..MaxWords}

\* ------ test vectors of the repository (inputs of rowRound and columnRound
\* are the same two states)

\* the inputs and the expected results of the tests of quarterRound
QrInputs ==
    << << Word(0, 0), Word(0, 0), Word(0, 0), Word(0, 0) >>,
       << Word(0, 1), Word(0, 0), Word(0, 0), Word(0, 0) >>,
       << Word(0, 0), Word(0, 1), Word(0, 0), Word(0, 0) >>,
       << Word(0, 0), Word(0, 0), Word(0, 1), Word(0, 0) >>,
       << Word(0, 0), Word(0, 0), Word(0, 0), Word(0, 1) >>,
       << Word(59368, 49158), Word(50425, 16765), Word(25721, 46258), Word(26822, 28983) >>,
       << Word(54161, 31835), Word(22001, 50183), Word(21157, 35450), Word(36744, 31291) >> >>

QrExpectedResults ==
    << << Word(0, 0), Word(0, 0), Word(0, 0), Word(0, 0) >>,
       << Word(2048, 33093), Word(0, 128), Word(1, 512), Word(8272, 0) >>,
       << Word(34816, 256), Word(0, 1), Word(0, 512), Word(64, 8192) >>,
       << Word(32772, 0), Word(0, 0), Word(0, 1), Word(0, 8192) >>,
       << Word(4, 32836), Word(0, 128), Word(1, 0), Word(8208, 1) >>,
       << Word(59510, 55083), Word(37729, 57301), Word(61766, 580), Word(38021, 16803) >>,
       << Word(15919, 12428), Word(55562, 36662), Word(27314, 43299), Word(10371, 21068) >> >>

RrTestInput1 ==
    << Word(0, 1), Word(0, 0), Word(0, 0), Word(0, 0),
     Word(0, 1), Word(0, 0), Word(0, 0), Word(0, 0),
     Word(0, 1), Word(0, 0), Word(0, 0), Word(0, 0),
     Word(0, 1), Word(0, 0), Word(0, 0), Word(0, 0) >>

RrTestInput2 ==
    << Word(2130, 7126), Word(8168, 34871), Word(47914, 42358), Word(15010, 25445),
     Word(50508, 27227), Word(12231, 19503), Word(28115, 40131), Word(55818, 25846),
     Word(37026, 62013), Word(1663, 38310), Word(1715, 24417), Word(16868, 29486),
     Word(59481, 49408), Word(59981, 33975), Word(3937, 39935), Word(48238, 38490) >>

RrExpectedResult1 ==
    << Word(2048, 33093), Word(0, 128), Word(1, 512), Word(8272, 0),
     Word(8208, 1), Word(4, 32836), Word(0, 128), Word(1, 0),
     Word(0, 1), Word(0, 8192), Word(32772, 0), Word(0, 0),
     Word(0, 1), Word(0, 512), Word(64, 8192), Word(34816, 256) >>

RrExpectedResult2 ==
    << Word(43152, 54173), Word(26071, 5526), Word(59720, 32170), Word(51402, 27270),
     Word(38045, 8594), Word(30283, 30548), Word(58376, 55737), Word(31297, 46289),
     Word(13314, 57731), Word(15418, 62514), Word(20582, 40854), Word(55454, 61608),
     Word(64, 60901), Word(46405, 64462), Word(53847, 60751), Word(6168, 34861) >>

CrExpectedResult1 ==
    << Word(4105, 648), Word(0, 0), Word(0, 0), Word(0, 0),
     Word(0, 257), Word(0, 0), Word(0, 0), Word(0, 0),
     Word(2, 1025), Word(0, 0), Word(0, 0), Word(0, 0),
     Word(16544, 16385), Word(0, 0), Word(0, 0), Word(0, 0) >>

CrExpectedResult2 ==
    << Word(35997, 6410), Word(52878, 19600), Word(7928, 59859), Word(4902, 42778),
     Word(37026, 291), Word(60115, 50419), Word(25504, 37280), Word(61552, 36201),
     Word(30875, 268), Word(53653, 42625), Word(60285, 21764), Word(42868, 4956),
     Word(18460, 8231), Word(21416, 58549), Word(19487, 35269), Word(16248, 51656) >>

DrTestInput1 ==
    << Word(0, 1), Word(0, 0), Word(0, 0), Word(0, 0),
     Word(0, 0), Word(0, 0), Word(0, 0), Word(0, 0),
     Word(0, 0), Word(0, 0), Word(0, 0), Word(0, 0),
     Word(0, 0), Word(0, 0), Word(0, 0), Word(0, 0) >>

DrTestInput2 ==
    << Word(56912, 4198), Word(28574, 47351), Word(58619, 48539), Word(17742, 16215),
     Word(46933, 16595), Word(17385, 14924), Word(14959, 10912), Word(29293, 27446),
     Word(37443, 62596), Word(37189, 53736), Word(20393, 53831), Word(56461, 60945),
     Word(1355, 62789), Word(9549, 54867), Word(55618, 7021), Word(26546, 30401) >>

DrExpectedResult1 ==
    << Word(33158, 41517), Word(64, 41604), Word(33351, 37392), Word(1682, 36945),
     Word(2048, 144), Word(576, 8704), Word(0, 16384), Word(128, 0),
     Word(1, 512), Word(8256, 0), Word(2048, 33028), Word(0, 0),
     Word(8272, 0), Word(40960, 64), Word(8, 6154), Word(24874, 32800) >>

DrExpectedResult2 ==
    << Word(52394, 63090), Word(9177, 24823), Word(37203, 58938), Word(52634, 24784),
     Word(20548, 1170), Word(61564, 44313), Word(44596, 19104), Word(57164, 65020),
     Word(51795, 7209), Word(36473, 17371), Word(44054, 32973), Word(54531, 51712),
     Word(42827, 10966), Word(48179, 7260), Word(7642, 9415), Word(61074, 33399) >>

ExpansionTest1Key0 == <<1, 2, 3, 4, 5, 6, 7, 8, 9, 10, 11, 12, 13, 14, 15, 16>>

ExpansionTest1Key1 ==
    <<201, 202, 203, 204, 205, 206, 207, 208, 209, 210, 211, 212, 213, 214, 215, 216>>

ExpansionTest1Nonce ==
    <<101, 102, 103, 104, 105, 106, 107, 108, 109, 110, 111, 112, 113, 114, 115, 116>>

ExpansionTest1ExpectedResult ==
    << 69, 37, 68, 39, 41, 15, 107, 193, 255, 139, 122, 6, 170, 233, 217, 98,
       89, 144, 182, 106, 21, 51, 200, 65, 239, 49, 222, 34, 215, 114, 40, 126,
       104, 197, 7, 225, 197, 153, 31, 2, 102, 78, 76, 176, 84, 245, 246, 184,
       177, 160, 133, 130, 6, 72, 149, 119, 192, 195, 132, 236, 234, 103, 246, 74 >>

ExpansionTest2ExpectedResult ==
    << 39, 173, 46, 248, 30, 200, 82, 17, 48, 67, 254, 239, 37, 18, 13, 247,
       241, 200, 61, 144, 10, 55, 50, 185, 6, 47, 246, 253, 143, 86, 187, 225,
       134, 85, 110, 246, 161, 163, 43, 235, 231, 94, 171, 51, 145, 214, 112, 29,
       14, 232, 5, 16, 151, 140, 183, 141, 171, 9, 122, 181, 104, 182, 177, 193 >>

ZeroState == [i \in 1..16 |-> WordZero] \o <<>>

\* a state of mixed words
PatternState(k) ==
    [i \in 1..16 |-> Word((i * k * 40503) % 65536, ((i * k * 25173) + 13849) % 65536)] \o <<>>

StateInputs ==
    {ZeroState, RrTestInput1, RrTestInput2, DrTestInput1, DrTestInput2} \cup
    {PatternState(k) : k \in 1..MaxWords}

QuarterWords ==
    {Word(0, 0), Word(65535, 65535), Word(32768, 0)} \cup
    {Word((k * 40503) % 65536, ((k * 25173) + 13849) % 65536) : k \in 1..MaxWords}

QuarterInputs ==
    {QrInputs[t] : t \in 1..Len(QrInputs)} \cup
    {<<a, b, c, d>> : a \in QuarterWords, b \in QuarterWords,
                      c \in QuarterWords, d \in QuarterWords}

\* a call of a function of one result that does not throw
Apply(o, a, r) ==
    /\ op' = o
    /\ args' = a
    /\ ret' = r
    /\ pc' = "returned"
    /\ UNCHANGED <<locals, blocks, prev>>

CallSumWords ==
    /\ pc = "idle"
    /\ \E wordA \in WordInputs, wordB \in WordInputs :
        Apply("sumWords", PrimArgs(<<wordA, wordB>>, <<>>, 0), sumWords(wordA, wordB))

CallXorWords ==
    /\ pc = "idle"
    /\ \E wordA \in WordInputs, wordB \in WordInputs :
        Apply("xorWords", PrimArgs(<<wordA, wordB>>, <<>>, 0), xorWords(wordA, wordB))

CallLeftRotate ==
    /\ pc = "idle"
    /\ \E wordA \in WordInputs, numBitsToRotate \in 1..31 :
        Apply("leftRotate", PrimArgs(<<wordA>>, <<>>, numBitsToRotate),
              leftRotate(wordA, numBitsToRotate))

CallQuarterRound ==
    /\ pc = "idle"
    /\ \E y \in QuarterInputs :
        Apply("quarterRound", PrimArgs(y, <<>>, 0), quarterRound(y[1], y[2], y[3], y[4]))

CallRowRound ==
    /\ pc = "idle"
    /\ \E yWords \in StateInputs :
        Apply("rowRound", PrimArgs(yWords, <<>>, 0), rowRound(yWords))

CallColumnRound ==
    /\ pc = "idle"
    /\ \E xWords \in StateInputs :
        Apply("columnRound", PrimArgs(xWords, <<>>, 0), columnRound(xWords))

CallDoubleRound ==
    /\ pc = "idle"
    /\ \E xWords \in StateInputs :
        Apply("doubleRound", PrimArgs(xWords, <<>>, 0), doubleRound(xWords))

ExpansionNonces == {ExpansionTest1Nonce, ZeroBytes(16), Pattern(16, 7, 3)}

ExpansionKey0s == {ExpansionTest1Key0, Pattern(16, 13, 5)}

\* no second half (a 16-byte key), or 16 bytes
ExpansionKey1s == {<<>>, ExpansionTest1Key1, ExpansionTest1Key0, Pattern(16, 11, 250)}

CallExpansion ==
    /\ pc = "idle"
    /\ \E nonce \in ExpansionNonces, key0 \in ExpansionKey0s, key1 \in ExpansionKey1s :
        Apply("expansion", [nonce |-> nonce, key0 |-> key0, key1 |-> key1],
              expansion(nonce, key0, key1))

\* a faulty variant: the bytes are added
xorTwoBytesAdding(byteA, byteB) == (byteA + byteB) % 256

\* resultByte[0] = byteA ^ byteB in a Uint8Array of one element, which keeps
\* the low 8 bits
xorTwoBytes(byteA, byteB) == BitXor(byteA, byteB) % 256

Bytes == 0..255

CallXorTwoBytes ==
    /\ pc = "idle"
    /\ \E byteA \in Bytes, byteB \in Bytes :
        Apply("xorTwoBytes", [byteA |-> byteA, byteB |-> byteB], xorTwoBytes(byteA, byteB))

\* xorTwoBytes(xorTwoBytes(byteA, byteB), byteB), the first call kept in prev
CallXorTwoBytesOfResult ==
    /\ pc = "returned"
    /\ op = "xorTwoBytes"
    /\ prev.op = "none"
    /\ op' = op
    /\ args' = [byteA |-> ret, byteB |-> args.byteB]
    /\ ret' = xorTwoBytes(ret, args.byteB)
    /\ prev' = Call(op, args, NoLocals, ret)
    /\ UNCHANGED <<pc, locals, blocks>>

\* expansion up to the call of hash: inputBytes is filled
ExpansionFill ==
    /\ pc = "idle"
    /\ \E nonce \in ExpansionNonces, key0 \in ExpansionKey0s, key1 \in ExpansionKey1s :
        /\ args' = [nonce |-> nonce, key0 |-> key0, key1 |-> key1]
        /\ locals' = [inputBytes |-> ExpansionInput(nonce, key0, key1)]
    /\ op' = "expansionCall"
    /\ pc' = "hash"
    /\ UNCHANGED <<ret, blocks, prev>>

\* return this.hash(inputBytes)
ExpansionHash ==
    /\ pc = "hash"
    /\ op = "expansionCall"
    /\ ret' = hash(locals.inputBytes)
    /\ pc' = "returned"
    /\ UNCHANGED <<op, args, locals, blocks, prev>>

\* after an expansion under a 16-byte key, expansion on the same nonce and
\* counter field under a 32-byte key, up to the call of hash
ExpansionFillAgain ==
    /\ pc = "returned"
    /\ op = "expansionCall"
    /\ prev.op = "none"
    /\ Len(args.key1) = 0
    /\ \E key0 \in ExpansionKey0s, key1 \in ExpansionKey1s :
        /\ Len(key1) # 0
        /\ args' = [nonce |-> args.nonce, key0 |-> key0, key1 |-> key1]
        /\ locals' = [inputBytes |-> ExpansionInput(args.nonce, key0, key1)]
    /\ prev' = Call(op, args, locals, ret)
    /\ pc' = "hash"
    /\ UNCHANGED <<op, ret, blocks>>

\* the counters of the repository's tests (0, 2, 255, 256, 1234567890, 2^32,
\* 2^53 - 1), the powers of 256 and their predecessors, and the small integers
NumInputs ==
    {NumOf(i) : i \in 0..MaxNum} \cup {NumOf(255), NumOf(256), NumOf(1234567890), maxInteger} \cup
    {JsInt(FALSE, m) : m \in {<<65535, 0, 0, 0>>, <<0, 1, 0, 0>>, <<65535, 255, 0, 0>>,
                              <<0, 256, 0, 0>>, <<65535, 65535, 0, 0>>, <<0, 0, 1, 0>>,
                              <<65535, 65535, 255, 0>>, <<0, 0, 256, 0>>,
                              <<65535, 65535, 65535, 0>>, <<0, 0, 0, 1>>,
                              <<65535, 65535, 65535, 15>>, <<0, 0, 0, 16>>}}

CallNumToEightByteArray ==
    /\ pc = "idle"
    /\ \E num \in NumInputs :
        Apply("numToEightByteArray", PrimArgs(<<>>, <<>>, num), numToEightByteArray(num))

\* a second call, the first one kept in prev
CallNumToEightByteArrayAgain ==
    /\ pc = "returned"
    /\ op = "numToEightByteArray"
    /\ prev.op = "none"
    /\ \E num \in NumInputs :
        /\ args' = PrimArgs(<<>>, <<>>, num)
        /\ ret' = numToEightByteArray(num)
    /\ prev' = Call(op, args, locals, ret)
    /\ UNCHANGED <<pc, op, locals, blocks>>

\* the bytes of the repository's tests, and the bytes around bit 7
ByteInputs == {0, 1, 9, 30, 75, 86, 127, 128, 250, 255}

CallLittleEndian ==
    /\ pc = "idle"
    /\ \E byte0 \in ByteInputs, byte1 \in ByteInputs, byte2 \in ByteInputs, byte3 \in ByteInputs :
        Apply("littleEndian", PrimArgs(<<>>, <<byte0, byte1, byte2, byte3>>, 0),
              littleEndian(byte0, byte1, byte2, byte3))

\* littleEndianInverse on the word littleEndian returned
CallLittleEndianInverseOfResult ==
    /\ pc = "returned"
    /\ op = "littleEndian"
    /\ prev.op = "none"
    /\ op' = "littleEndianInverse"
    /\ args' = PrimArgs(<<ret>>, <<>>, 0)
    /\ ret' = littleEndianInverse(ret)
    /\ prev' = Call(op, args, locals, ret)
    /\ UNCHANGED <<pc, locals, blocks>>

CallLittleEndianInverse ==
    /\ pc = "idle"
    /\ \E word \in WordInputs \cup {Word(64255, 65535), Word(2334, 19286)} :
        Apply("littleEndianInverse", PrimArgs(<<word>>, <<>>, 0), littleEndianInverse(word))

\* littleEndian on the four bytes littleEndianInverse returned
CallLittleEndianOfResult ==
    /\ pc = "returned"
    /\ op = "littleEndianInverse"
    /\ prev.op = "none"
    /\ op' = "littleEndian"
    /\ args' = PrimArgs(<<>>, ret, 0)
    /\ ret' = littleEndian(ret[1], ret[2], ret[3], ret[4])
    /\ prev' = Call(op, args, locals, ret)
    /\ UNCHANGED <<pc, locals, blocks>>

NextPrimitives ==
    \/ CallSumWords
    \/ CallXorWords
    \/ CallLeftRotate
    \/ CallQuarterRound
    \/ CallRowRound
    \/ CallColumnRound
    \/ CallDoubleRound
    \/ CoreHash
    \/ CallExpansion
    \/ ExpansionFill
    \/ ExpansionHash
    \/ ExpansionFillAgain
    \/ CallXorTwoBytes
    \/ CallXorTwoBytesOfResult
    \/ CallNumToEightByteArray
    \/ CallNumToEightByteArrayAgain
    \/ CallLittleEndian
    \/ CallLittleEndianInverseOfResult
    \/ CallLittleEndianInverse
    \/ CallLittleEndianOfResult

SpecPrimitives == Init /\ [][NextPrimitives]_vars

\* ------------------------------------------------------------------------
\* The block loop of Salsa20.core.generateKeystream, one statement group at a
\* time
\* ------------------------------------------------------------------------

MaxLoopBlocks == 3

LoopLengths == {0} \cup {(64 * (b - 1)) + r : b \in 1..MaxLoopBlocks, r \in {1, 64}}

\* start counters at the bottom and at the top of the range: 0, 255 and
\* 2^53 - 1 - k
LoopCounters ==
    {NumOf(0), NumOf(255)} \cup {JsSub(maxInteger, NumOf(k)) : k \in 0..MaxLoopBlocks}

\* counter + ceil(lengthRequired / 64) <= 2^53, in exact arithmetic
LoopCounterInRange(counter, lengthRequired) ==
    ~MagLess(MagAdd(maxInteger.mag, MagOf(1)),
             MagAdd(counter.mag, MagOf(NumBlocks(lengthRequired))))

\* generateKeystream up to the for statement
LoopEnter ==
    /\ pc = "idle"
    /\ \E key \in CoreKeys, nonce \in CoreNonces, counter \in LoopCounters,
          lengthRequired \in LoopLengths :
        /\ LoopCounterInRange(counter, lengthRequired)
        /\ args' = Args(key, <<>>, lengthRequired, nonce, counter, "none")
        /\ locals' = KeystreamLocals(key, lengthRequired, nonce, counter)
    /\ op' = "keystreamLoop"
    /\ pc' = "test"
    /\ blocks' = 0
    /\ UNCHANGED <<ret, prev>>

LoopEncodeCounter ==
    /\ pc = "test"
    /\ KeystreamLoopTest(locals)
    /\ locals' = KeystreamEncodeCounter(locals)
    /\ pc' = "body"
    /\ UNCHANGED <<op, args, ret, blocks, prev>>

LoopExpand ==
    /\ pc = "body"
    /\ locals' = KeystreamExpand(locals)
    /\ blocks' = blocks + 1
    /\ pc' = "test"
    /\ UNCHANGED <<op, args, ret, prev>>

LoopReturn ==
    /\ pc = "test"
    /\ ~KeystreamLoopTest(locals)
    /\ ret' = locals.keystreamBytes
    /\ pc' = "returned"
    /\ UNCHANGED <<op, args, locals, blocks, prev>>

NextLoop ==
    \/ LoopEnter
    \/ LoopEncodeCounter
    \/ LoopExpand
    \/ LoopReturn

SpecLoop == Init /\ [][NextLoop]_vars

\* a call that was started runs on: the program is sequential
SpecLoopFair == SpecLoop /\ WF_vars(LoopEncodeCounter \/ LoopExpand \/ LoopReturn)

\* ------------------------------------------------------------------------
\* Salsa20.core.encryption, one statement at a time
\* ------------------------------------------------------------------------

\* ------ the blocks of generateKeystream as separate tasks

TaskLengths == {1, 128, 129}
TaskCounters == {NumOf(255), JsSub(maxInteger, NumOf(2))}

\* a faulty variant: the blocks of two tasks overlap
TaskOffsetOverlapping(b) == 32 * b

\* block, the offset of block b in keystreamBytes: block += 64 in each pass
TaskOffset(b) == outputByteLength * b

\* counter in pass b of the loop: counter++ in each pass
TaskCounter(counter, b) == JsAdd(counter, NumOf(b))

\* the locals of generateKeystream before the loop, one stage per task, the
\* expansion bytes of each task, and the order of the writes
TaskLocals(key, lengthRequired, nonce, counter) ==
    Let(KeystreamLocals(key, lengthRequired, nonce, counter), LAMBDA l :
        [keys |-> l.keys,
         numBlocksToGenerate |-> l.numBlocksToGenerate,
         keystreamBytes |-> l.keystreamBytes,
         counterAndNonceBytes |-> l.counterAndNonceBytes,
         stage |-> [b \in 0..(l.numBlocksToGenerate - 1) |-> "ready"],
         expansionBytes |-> [b \in 0..(l.numBlocksToGenerate - 1) |-> <<>>],
         order |-> <<>>])

\* generateKeystream up to the for statement, the passes left to the tasks
TasksEnter ==
    /\ pc = "idle"
    /\ \E key \in CoreKeys, counter \in TaskCounters, lengthRequired \in TaskLengths :
        /\ LoopCounterInRange(counter, lengthRequired)
        /\ args' = Args(key, <<>>, lengthRequired, <<3, 1, 4, 1, 5, 9, 2, 6>>, counter, "none")
        /\ locals' = TaskLocals(key, lengthRequired, <<3, 1, 4, 1, 5, 9, 2, 6>>, counter)
    /\ op' = "blockTasks"
    /\ pc' = "tasks"
    /\ UNCHANGED <<ret, blocks, prev>>

\* task b: the counter of pass b encoded into its own copy of
\* counterAndNonceBytes, and the expansion of it
TaskCompute ==
    /\ pc = "tasks"
    /\ op = "blockTasks"
    /\ \E b \in DOMAIN locals.stage :
        /\ locals.stage[b] = "ready"
        /\ \E counterAndNonceBytes \in
               {updateArray(locals.counterAndNonceBytes,
                            numToEightByteArray(TaskCounter(args.counter, b)), 8)} :
           \E expansionBytes \in
               {expansion(counterAndNonceBytes, locals.keys.key0, locals.keys.key1)} :
               locals' = [locals EXCEPT !.stage[b] = "computed",
                                        !.expansionBytes[b] = expansionBytes]
    /\ UNCHANGED <<pc, op, args, ret, blocks, prev>>

\* task b: updateArray(keystreamBytes, expansionBytes, block) at its offset
TaskWrite ==
    /\ pc = "tasks"
    /\ op = "blockTasks"
    /\ \E b \in DOMAIN locals.stage :
        /\ locals.stage[b] = "computed"
        /\ locals' = [locals EXCEPT
               !.stage[b] = "written",
               !.keystreamBytes = updateArray(@, locals.expansionBytes[b], TaskOffset(b)),
               !.order = Append(@, b)]
    /\ UNCHANGED <<pc, op, args, ret, blocks, prev>>

\* return keystreamBytes, when every task has written its block
TasksJoin ==
    /\ pc = "tasks"
    /\ op = "blockTasks"
    /\ \A b \in DOMAIN locals.stage : locals.stage[b] = "written"
    /\ ret' = locals.keystreamBytes
    /\ pc' = "returned"
    /\ UNCHANGED <<op, args, locals, blocks, prev>>

NextTasks ==
    \/ TasksEnter
    \/ TaskCompute
    \/ TaskWrite
    \/ TasksJoin

SpecTasks == Init /\ [][NextTasks]_vars

EncryptionLengths == {0} \cup {(64 * (b - 1)) + r : b \in 1..MaxLoopBlocks, r \in {1, 37, 64}}

EncryptionMessages ==
    {ZeroBytes(n) : n \in EncryptionLengths} \cup {Pattern(n, 7, 3) : n \in EncryptionLengths}

\* the block loop ends: counter reaches maxCounter, which it does when
\* maxCounter, rounded as a double, is at most 2^53
LoopEnds(counter, lengthRequired) ==
    ~JsLess(JsAdd(maxInteger, NumOf(1)), JsAdd(counter, NumOf(NumBlocks(lengthRequired))))

\* var messageLength = message.length; var keystream = this.generateKeystream(...)
EncryptionKeystream ==
    /\ pc = "idle"
    /\ \E key \in CoreKeys, message \in EncryptionMessages, nonce \in CoreNonces,
          counter \in LoopCounters :
        /\ LoopEnds(counter, Len(message))
        /\ args' = Args(key, message, Len(message), nonce, counter, "none")
        /\ locals' = [messageLength |-> Len(message),
                      keystream |-> generateKeystream(key, Len(message), nonce, counter)]
    /\ op' = "encryptionCall"
    /\ pc' = "xor"
    /\ UNCHANGED <<ret, blocks, prev>>

\* var xoredBytes = this.xorKeystreamAndMessage(...); return xoredBytes
EncryptionXor ==
    /\ pc = "xor"
    /\ op = "encryptionCall"
    /\ ret' = xorKeystreamAndMessage(locals.keystream, args.message, locals.messageLength)
    /\ pc' = "returned"
    /\ UNCHANGED <<op, args, locals, blocks, prev>>

NextEncryption ==
    \/ EncryptionKeystream
    \/ EncryptionXor

SpecEncryption == Init /\ [][NextEncryption]_vars

\* ------------------------------------------------------------------------
\* Salsa20.core on arrays held by reference: a heap maps the name of every
\* array (the caller's, the module's, and the ones a function allocates under
\* the name of its local variable) to its elements, and every store of the
\* program is a store into the array its target names
\* ------------------------------------------------------------------------

\* arrays a caller hands to a function of the core
CallerRefs == {"state", "block", "key", "key1", "nonce", "message", "keystream"}

\* the arrays of Salsa20.core.constants16 and Salsa20.core.constants32
Constants16Refs == <<"constants16[0]", "constants16[1]", "constants16[2]", "constants16[3]">>
Constants32Refs == <<"constants32[0]", "constants32[1]", "constants32[2]", "constants32[3]">>
ModuleRefs == {Constants16Refs[i] : i \in 1..4} \cup {Constants32Refs[i] : i \in 1..4}

\* arrays allocated by the functions, under the names of their variables
LocalRefs ==
    {"yWords", "zWords", "xWords", "resultBytes", "inputBytes", "key0", "key1 (new)",
     "empty", "keystreamBytes", "counterAndNonceBytes", "counterBytes", "xoredBytes",
     "key (parsed)", "message (parsed)", "nonce (parsed)"}

Refs == CallerRefs \cup ModuleRefs \cup LocalRefs

\* the heap when the module is loaded
ModuleHeap ==
    [r \in Refs |->
        IF \E i \in 1..4 : r = Constants16Refs[i]
        THEN constants16[CHOOSE i \in 1..4 : r = Constants16Refs[i]]
        ELSE IF \E i \in 1..4 : r = Constants32Refs[i]
        THEN constants32[CHOOSE i \in 1..4 : r = Constants32Refs[i]]
        ELSE <<>>]

NoArrays == [r \in CallerRefs |-> <<>>]

\* the heap h at the start of a call on the caller's arrays: the arrays of
\* earlier calls are gone
HeapAtCall(h, arrays) ==
    [r \in Refs |-> IF r \in CallerRefs THEN arrays[r]
                    ELSE IF r \in ModuleRefs THEN h[r] ELSE <<>>]

\* ref = new Uint8Array(n)
NewArray(h, ref, n) == [h EXCEPT ![ref] = ZeroBytes(n)]

\* ref = new Uint32Array(16)
NewWords(h, ref) == [h EXCEPT ![ref] = ZeroState]

\* a faulty variant: the roles of the two arrays are exchanged
updateArrayAtSwapped(h, arrayToFill, arrayToFillFrom, startIndex) ==
    Let(h, LAMBDA hh :
        [hh EXCEPT ![arrayToFillFrom] = updateArray(@, hh[arrayToFill], startIndex)])

\* updateArray(arrayToFill, arrayToFillFrom, startIndex) on the heap
updateArrayAt(h, arrayToFill, arrayToFillFrom, startIndex) ==
    Let(h, LAMBDA hh :
        [hh EXCEPT ![arrayToFill] = updateArray(@, hh[arrayToFillFrom], startIndex)])

\* a faulty variant: the quarter round writes into the array it reads
QuarterRoundAtInPlace(h, src, dst, g) ==
    Let(h, LAMBDA hh :
    Let(quarterRound(hh[src][g[1] + 1], hh[src][g[2] + 1], hh[src][g[3] + 1],
                     hh[src][g[4] + 1]),
        LAMBDA transformedWords :
            [hh EXCEPT ![src] = TypedArray([i \in 1..16 |->
                IF i = g[1] + 1 THEN transformedWords[1]
                ELSE IF i = g[2] + 1 THEN transformedWords[2]
                ELSE IF i = g[3] + 1 THEN transformedWords[3]
                ELSE IF i = g[4] + 1 THEN transformedWords[4]
                ELSE hh[src][i]]),
                       ![dst] = hh[src]]))

\* transformedWords = quarterRound(src[g0], src[g1], src[g2], src[g3]);
\* dst[g0] = transformedWords[0]; ... dst[g3] = transformedWords[3]
QuarterRoundAt(h, src, dst, g) ==
    Let(h, LAMBDA hh :
    Let(quarterRound(hh[src][g[1] + 1], hh[src][g[2] + 1], hh[src][g[3] + 1],
                     hh[src][g[4] + 1]),
        LAMBDA transformedWords :
            [hh EXCEPT ![dst] = TypedArray([i \in 1..16 |->
                IF i = g[1] + 1 THEN transformedWords[1]
                ELSE IF i = g[2] + 1 THEN transformedWords[2]
                ELSE IF i = g[3] + 1 THEN transformedWords[3]
                ELSE IF i = g[4] + 1 THEN transformedWords[4]
                ELSE hh[dst][i]])]))

\* rowRound(yWords): the result is the array zWords
rowRoundAt(h, yWords) ==
    QuarterRoundAt(QuarterRoundAt(QuarterRoundAt(QuarterRoundAt(
        NewWords(h, "zWords"),
        yWords, "zWords", <<0, 1, 2, 3>>),
        yWords, "zWords", <<5, 6, 7, 4>>),
        yWords, "zWords", <<10, 11, 8, 9>>),
        yWords, "zWords", <<15, 12, 13, 14>>)

\* columnRound(xWords): the result is the array yWords
columnRoundAt(h, xWords) ==
    QuarterRoundAt(QuarterRoundAt(QuarterRoundAt(QuarterRoundAt(
        NewWords(h, "yWords"),
        xWords, "yWords", <<0, 4, 8, 12>>),
        xWords, "yWords", <<5, 9, 13, 1>>),
        xWords, "yWords", <<10, 14, 2, 6>>),
        xWords, "yWords", <<15, 3, 7, 11>>)

\* doubleRound(xWords): the result is the array zWords
doubleRoundAt(h, xWords) == rowRoundAt(columnRoundAt(h, xWords), "yWords")

RECURSIVE HashRoundLoopAt(_, _, _)
\* for (i = 0; i < 10; i++) zWords = this.doubleRound(zWords), from i on
HashRoundLoopAt(h, zWords, i) ==
    Let(h, LAMBDA hh :
        IF i < HashRounds
        THEN HashRoundLoopAt(doubleRoundAt(hh, zWords), "zWords", i + 1)
        ELSE hh)

\* hash(xBytes): the result is the array resultBytes
hashAt(h, xBytes) ==
    Let(h, LAMBDA h0 :
    Let([h0 EXCEPT !["xWords"] = TypedArray([j \in 1..(outputByteLength \div 4) |->
             littleEndian(h0[xBytes][(4 * j) - 3], h0[xBytes][(4 * j) - 2],
                          h0[xBytes][(4 * j) - 1], h0[xBytes][4 * j])])],
        LAMBDA h1 :
    Let(HashRoundLoopAt(h1, "xWords", 0), LAMBDA h2 :
    Let(TypedArray([i \in 1..16 |->
            littleEndianInverse(sumWords(h2["zWords"][i], h2["xWords"][i]))]),
        LAMBDA inverseEndianBytes :
            [h2 EXCEPT !["resultBytes"] = TypedArray([r \in 1..outputByteLength |->
                inverseEndianBytes[((r - 1) \div 4) + 1][((r - 1) % 4) + 1]])]))))

\* expansion(nonce, key0, key1): the result is the array resultBytes of hash
expansionAt(h, nonce, key0, key1) ==
    Let(h, LAMBDA hh :
    Let(IF Len(hh[key1]) # 0 THEN <<Constants32Refs, key1>> ELSE <<Constants16Refs, key0>>,
        LAMBDA c :
            hashAt(updateArrayAt(updateArrayAt(updateArrayAt(updateArrayAt(updateArrayAt(
                   updateArrayAt(updateArrayAt(NewArray(hh, "inputBytes", 64),
                       "inputBytes", c[1][1], 0),
                       "inputBytes", key0, 4),
                       "inputBytes", c[1][2], 20),
                       "inputBytes", nonce, 24),
                       "inputBytes", c[1][3], 40),
                       "inputBytes", c[2], 44),
                       "inputBytes", c[1][4], 60),
                   "inputBytes")))

\* splitKey(key): the heap, and the arrays that the result names
splitKeyAt(h, key) ==
    Let(NewArray(NewArray(h, "key0", 16), "key1 (new)", 16), LAMBDA hh :
        IF Len(hh[key]) = 16
        THEN [heap |-> NewArray(hh, "empty", 0), key0 |-> key, key1 |-> "empty"]
        ELSE [heap |-> [hh EXCEPT
                           !["key0"] = TypedArray([n \in 1..16 |-> ByteAt(hh[key], n - 1)]),
                           !["key1 (new)"] =
                               TypedArray([n \in 1..16 |-> ByteAt(hh[key], 16 + (n - 1))])],
              key0 |-> "key0", key1 |-> "key1 (new)"])

RECURSIVE KeystreamLoopAt(_, _, _, _, _)
\* the block loop of generateKeystream
KeystreamLoopAt(h, keys, block, counter, maxCounter) ==
    Let(h, LAMBDA hh :
        IF JsLess(counter, maxCounter)
        THEN KeystreamLoopAt(
                 updateArrayAt(
                     expansionAt(
                         updateArrayAt([hh EXCEPT !["counterBytes"] =
                                            numToEightByteArray(counter)],
                                       "counterAndNonceBytes", "counterBytes", 8),
                         "counterAndNonceBytes", keys.key0, keys.key1),
                     "keystreamBytes", "resultBytes", block),
                 keys, block + 64, JsAdd(counter, NumOf(1)), maxCounter)
        ELSE hh)

\* generateKeystream(key, lengthRequired, nonce, counter): the result is the
\* array keystreamBytes
generateKeystreamAt(h, key, lengthRequired, nonce, counter) ==
    Let(splitKeyAt(h, key), LAMBDA keys :
        KeystreamLoopAt(
            updateArrayAt(
                NewArray(NewArray(keys.heap, "keystreamBytes",
                                  NumBlocks(lengthRequired) * outputByteLength),
                         "counterAndNonceBytes", 16),
                "counterAndNonceBytes", nonce, 0),
            keys, 0, counter, JsAdd(counter, NumOf(NumBlocks(lengthRequired)))))

\* xorKeystreamAndMessage(keystreamBytes, messageBytes, messageLength): the
\* result is the array xoredBytes
xorKeystreamAndMessageAt(h, keystreamBytes, messageBytes, messageLength) ==
    Let(h, LAMBDA hh :
        [hh EXCEPT !["xoredBytes"] =
            xorKeystreamAndMessage(hh[keystreamBytes], hh[messageBytes], messageLength)])

\* encryption(key, message, nonce, counter): the result is the array xoredBytes
encryptionAt(h, key, message, nonce, counter) ==
    Let(h, LAMBDA hh :
        xorKeystreamAndMessageAt(
            generateKeystreamAt(hh, key, Len(hh[message]), nonce, counter),
            "keystreamBytes", message, Len(hh[message])))

\* what a public function returns for the bytes of the core
WrapperOutput(o, options, bytes) ==
    IF options.returnType = "hex" THEN Return(JsString(bytesToHex(bytes)))
    ELSE IF o = "decrypt" THEN bytesToUtf8String(bytes)
    ELSE Return(Uint8ArrayOf(bytes))

\* the array that a parse function returns for the argument value, parsed to
\* bytes: the caller's array itself for a Uint8Array, a new array otherwise
ParsedRef(value, callerRef, newRef) == IF value.type = "Uint8Array" THEN callerRef ELSE newRef

\* h with the new array of a parse function, if it made one
WithParsed(h, value, bytes, newRef) ==
    IF value.type = "Uint8Array" THEN h ELSE [h EXCEPT ![newRef] = bytes]

\* the public function o on the arguments a, after the four parse functions
\* returned key, message, nonce and counter: the heap and the result
wrapperCoreAt(h, o, a, key, message, nonce, counter) ==
    Let(WithParsed(WithParsed(WithParsed(h, a.key, key, "key (parsed)"),
                              a.message, message, "message (parsed)"),
                   a.nonce, nonce, "nonce (parsed)"),
        LAMBDA h1 :
    Let(IF o = "generateKeystream"
        THEN generateKeystreamAt(h1, ParsedRef(a.key, "key", "key (parsed)"), a.length,
                                 ParsedRef(a.nonce, "nonce", "nonce (parsed)"), counter)
        ELSE encryptionAt(h1, ParsedRef(a.key, "key", "key (parsed)"),
                          ParsedRef(a.message, "message", "message (parsed)"),
                          ParsedRef(a.nonce, "nonce", "nonce (parsed)"), counter),
        LAMBDA h2 :
            [heap |-> h2,
             result |-> WrapperOutput(o, a.options,
                            h2[IF o = "generateKeystream" THEN "keystreamBytes"
                               ELSE "xoredBytes"])]))

\* the public function o on the arguments a: a parse function that throws
\* ends the call
wrapperAt(h, o, a) ==
    Let(parseKey(a.key), LAMBDA key :
    IF key.threw THEN [heap |-> h, result |-> key] ELSE
    Let(IF o = "generateKeystream" THEN Return(Uint8ArrayOf(<<>>))
        ELSE parseMessage(a.message, a.options), LAMBDA message :
    IF message.threw THEN [heap |-> h, result |-> message] ELSE
    Let(parseNonce(a.nonce), LAMBDA nonce :
    IF nonce.threw THEN [heap |-> h, result |-> nonce] ELSE
    Let(parseCounter(a.counter, NumOf(IF o = "generateKeystream" THEN a.length
                                      ELSE Len(message.value.seq))),
        LAMBDA counter :
    IF counter.threw THEN [heap |-> h, result |-> counter] ELSE
        wrapperCoreAt(h, o, a, key.value.seq, message.value.seq, nonce.value.seq,
                      counter.value.num)))))

\* ------ calls of the core, one after another, on the same module

FrameOps ==
    {"core.quarterRound", "core.rowRound", "core.columnRound", "core.doubleRound",
     "core.hash", "core.expansion", "core.generateKeystream", "core.encryption",
     "core.xorKeystreamAndMessage"}

\* the arguments of a call: the arrays by name, and the numbers
FrameArgs(arrays, words, length, counter) ==
    [arrays |-> arrays, words |-> words, length |-> length, counter |-> counter]

Arrays1(r, a) == [NoArrays EXCEPT ![r] = a]

FrameStates == {RrTestInput2}
FrameBlocks == {Pattern(64, 1, 101)}
FrameLengths == {70}
FrameMessages == {Pattern(70, 7, 3)}

\* the names of the public functions in op
PublicOps ==
    [encrypt |-> "Salsa20.encrypt", decrypt |-> "Salsa20.decrypt",
     generateKeystream |-> "Salsa20.generateKeystream"]

\* the arguments of a call of a public function: the Uint8Arrays among them
\* are the caller's arrays
WrapperArgs(a) ==
    [arrays |-> [NoArrays EXCEPT
                    !["key"] = IF a.key.type = "Uint8Array" THEN a.key.seq ELSE <<>>,
                    !["message"] = IF a.message.type = "Uint8Array" THEN a.message.seq ELSE <<>>,
                    !["nonce"] = IF a.nonce.type = "Uint8Array" THEN a.nonce.seq ELSE <<>>],
     words |-> <<>>, length |-> a.length, counter |-> NumOf(0), call |-> a]

\* a 16-byte key as bytes, a 32-byte key in hexadecimal, a key of 15 bytes
FrameKeys ==
    {Uint8ArrayOf(Pattern(16, 1, 0)), JsString(bytesToHex(Pattern(32, 1, 0))),
     Uint8ArrayOf(Pattern(15, 1, 0))}

\* a first call, or a second one after a first
FrameReady ==
    \/ pc = "idle"
    \/ /\ pc \in {"returned", "threw"}
       /\ op \in FrameOps \cup {PublicOps[o] : o \in Wrappers}
       /\ prev.op = "none"

\* the call o(a): Run takes the heap at the call to the heap at the return,
\* where the array named result is returned
FrameCall(o, a, Run(_), result) ==
    /\ \E h \in {Run(HeapAtCall(IF pc = "idle" THEN ModuleHeap ELSE locals, a.arrays))} :
        /\ locals' = h
        /\ ret' = h[result]
    /\ op' = o
    /\ args' = a
    /\ pc' = "returned"
    /\ prev' = IF pc = "idle" THEN prev ELSE Call(op, args, NoLocals, ret)
    /\ UNCHANGED blocks

FrameQuarterRound ==
    /\ FrameReady
    /\ \E y \in {QrInputs[7]} :
        FrameCall("core.quarterRound", FrameArgs(NoArrays, y, 0, NumOf(0)),
                  LAMBDA h : [h EXCEPT !["zWords"] = quarterRound(y[1], y[2], y[3], y[4])],
                  "zWords")

FrameRowRound ==
    /\ FrameReady
    /\ \E yWords \in FrameStates :
        FrameCall("core.rowRound", FrameArgs(Arrays1("state", yWords), <<>>, 0, NumOf(0)),
                  LAMBDA h : rowRoundAt(h, "state"), "zWords")

FrameColumnRound ==
    /\ FrameReady
    /\ \E xWords \in FrameStates :
        FrameCall("core.columnRound", FrameArgs(Arrays1("state", xWords), <<>>, 0, NumOf(0)),
                  LAMBDA h : columnRoundAt(h, "state"), "yWords")

FrameDoubleRound ==
    /\ FrameReady
    /\ \E xWords \in FrameStates :
        FrameCall("core.doubleRound", FrameArgs(Arrays1("state", xWords), <<>>, 0, NumOf(0)),
                  LAMBDA h : doubleRoundAt(h, "state"), "zWords")

FrameHash ==
    /\ FrameReady
    /\ \E xBytes \in FrameBlocks :
        FrameCall("core.hash", FrameArgs(Arrays1("block", xBytes), <<>>, 0, NumOf(0)),
                  LAMBDA h : hashAt(h, "block"), "resultBytes")

FrameExpansion ==
    /\ FrameReady
    /\ \E key1 \in {<<>>, ExpansionTest1Key1} :
        FrameCall("core.expansion",
                  FrameArgs([NoArrays EXCEPT !["nonce"] = ExpansionTest1Nonce,
                                             !["key"] = ExpansionTest1Key0,
                                             !["key1"] = key1],
                            <<>>, 0, NumOf(0)),
                  LAMBDA h : expansionAt(h, "nonce", "key", "key1"), "resultBytes")

FrameGenerateKeystream ==
    /\ FrameReady
    /\ \E key \in CoreKeys, lengthRequired \in FrameLengths :
        FrameCall("core.generateKeystream",
                  FrameArgs([NoArrays EXCEPT !["key"] = key,
                                             !["nonce"] = <<3, 1, 4, 1, 5, 9, 2, 6>>],
                            <<>>, lengthRequired, NumOf(255)),
                  LAMBDA h : generateKeystreamAt(h, "key", lengthRequired, "nonce", NumOf(255)),
                  "keystreamBytes")

FrameEncryption ==
    /\ FrameReady
    /\ \E key \in CoreKeys, message \in FrameMessages :
        FrameCall("core.encryption",
                  FrameArgs([NoArrays EXCEPT !["key"] = key,
                                             !["message"] = message,
                                             !["nonce"] = <<3, 1, 4, 1, 5, 9, 2, 6>>],
                            <<>>, Len(message), NumOf(255)),
                  LAMBDA h : encryptionAt(h, "key", "message", "nonce", NumOf(255)),
                  "xoredBytes")

FrameXorKeystreamAndMessage ==
    /\ FrameReady
    /\ \E message \in FrameMessages :
        FrameCall("core.xorKeystreamAndMessage",
                  FrameArgs([NoArrays EXCEPT !["keystream"] = Pattern(128, 3, 1),
                                             !["message"] = message],
                            <<>>, Len(message), NumOf(0)),
                  LAMBDA h : xorKeystreamAndMessageAt(h, "keystream", "message", Len(message)),
                  "xoredBytes")

FrameWrapper ==
    /\ FrameReady
    /\ \E o \in Wrappers, key \in FrameKeys :
       \E a \in {WrapperArgs(Args(key, Uint8ArrayOf(<<104, 195, 169>>), 53,
                                  Uint8ArrayOf(<<3, 1, 4, 1, 5, 9, 2, 6>>),
                                  JsNumber(NumOf(0)), NoOptions))} :
       \E run \in {wrapperAt(HeapAtCall(IF pc = "idle" THEN ModuleHeap ELSE locals,
                                        a.arrays), o, a.call)} :
           /\ locals' = run.heap
           /\ ret' = run.result
           /\ op' = PublicOps[o]
           /\ args' = a
           /\ pc' = IF run.result.threw THEN "threw" ELSE "returned"
    /\ prev' = IF pc = "idle" THEN prev ELSE Call(op, args, NoLocals, ret)
    /\ UNCHANGED blocks

NextFrame ==
    \/ FrameWrapper
    \/ FrameQuarterRound
    \/ FrameRowRound
    \/ FrameColumnRound
    \/ FrameDoubleRound
    \/ FrameHash
    \/ FrameExpansion
    \/ FrameGenerateKeystream
    \/ FrameEncryption
    \/ FrameXorKeystreamAndMessage

SpecFrame == Init /\ [][NextFrame]_vars

Next ==
    \/ NextCore \/ NextApi \/ NextPrimitives \/ NextLoop \/ NextEncryption \/ NextFrame
    \/ NextTasks

Spec == Init /\ [][Next]_vars

\* ------------------------------------------------------------------------
\* Properties of Salsa20.core
\* ------------------------------------------------------------------------

\* ceil(n / 64): the least number of 64-byte blocks that hold n bytes
CeilDiv64(n) == CHOOSE q \in 0..n : 64 * q >= n /\ (q = 0 \/ 64 * (q - 1) < n)

\* the 8-byte big-endian encoding of an integer below 2^64
Enc8(mag) ==
    <<mag[4] \div 256, mag[4] % 256, mag[3] \div 256, mag[3] % 256,
      mag[2] \div 256, mag[2] % 256, mag[1] \div 256, mag[1] % 256>>

AllZero(bytes) == \A i \in 1..Len(bytes) : bytes[i] = 0

\* C1: core.encryption is its own inverse: encrypting the output of
\* encryption(key, m, nonce, c) again with the same key, nonce and counter
\* returns m byte for byte, for 16- and 32-byte keys and every message
\* length, the empty message and lengths off the block size included.
C1_EncryptionInvolution ==
    (op = "encryption" /\ prev.op = "encryption") => ret = prev.args.message

C1_Witness ==
    /\ op = "encryption"
    /\ prev.op = "encryption"
    /\ Len(args.key) = 16
    /\ Len(prev.args.message) = 77
    /\ ~AllZero(prev.args.message)
    /\ prev.ret # prev.args.message
    /\ args.message = prev.ret

\* C2: generateKeystream returns exactly 64 * ceil(L / 64) bytes for a
\* requested length L: 53 -> 64, 77 -> 128, 256 -> 256, 257 -> 320, 0 -> 0;
\* never fewer than L bytes and never more than L + 63.
C2_BlockRounding ==
    op = "generateKeystream" =>
        /\ Len(ret) = 64 * CeilDiv64(args.length)
        /\ Len(ret) >= args.length
        /\ Len(ret) <= args.length + 63
        /\ args.length = 0 => Len(ret) = 0
        /\ args.length = 53 => Len(ret) = 64
        /\ args.length = 77 => Len(ret) = 128
        /\ args.length = 256 => Len(ret) = 256
        /\ args.length = 257 => Len(ret) = 320

C2_Witness ==
    /\ op = "generateKeystream"
    /\ args.length = 257
    /\ Len(ret) = 320

\* C3: seek law. The keystream generated from start counter C + k equals the
\* keystream generated from C from its byte 64 * k on, at every index that
\* both have; with k = 0 the shorter is a prefix of the longer.
C3_SeekLaw ==
    (op = "generateKeystream" /\ prev.op = "generateKeystream") =>
        \A k \in 0..MaxSeek :
            args.counter.mag = MagAdd(prev.args.counter.mag, MagOf(k)) =>
                \A i \in 1..Len(ret) :
                    (64 * k) + i <= Len(prev.ret) => ret[i] = prev.ret[(64 * k) + i]

C3_Witness ==
    /\ op = "generateKeystream"
    /\ prev.op = "generateKeystream"
    /\ args.counter = NumOf(2)
    /\ prev.args.counter = NumOf(0)
    /\ Len(prev.ret) = 192
    /\ Len(ret) = 192
    /\ SubSeq(ret, 1, 64) = SubSeq(prev.ret, 129, 192)
    /\ SubSeq(ret, 1, 64) # SubSeq(prev.ret, 1, 64)

\* C4: block b of generateKeystream(key, L, nonce, C), bytes 64b .. 64b + 63,
\* is expansion(nonce ++ enc8(C + b), key0, key1) for every b below
\* ceil(L / 64): key0 is the first 16 bytes of the key, key1 bytes 16..31 of
\* a 32-byte key and empty for a 16-byte key, and the counter grows by one
\* from block to block.
C4_BlockIsExpansion ==
    op = "generateKeystream" =>
        \A key0 \in {SubSeq(args.key, 1, 16)} :
        \A key1 \in {IF Len(args.key) = 32 THEN SubSeq(args.key, 17, 32) ELSE <<>>} :
        \A b \in 0..(CeilDiv64(args.length) - 1) :
            /\ Len(ret) >= (64 * b) + 64
            /\ SubSeq(ret, (64 * b) + 1, (64 * b) + 64) =
                   expansion(args.nonce \o Enc8(MagAdd(args.counter.mag, MagOf(b))),
                             key0, key1)

C4_Witness ==
    /\ op = "generateKeystream"
    /\ Len(args.key) = 32
    /\ args.counter = NumOf(255)
    /\ args.length = 192
    /\ Len(ret) = 192

\* C5: encryption returns message.length bytes, output[i] = message[i] XOR
\* keystream[i] with keystream = generateKeystream(key, message.length,
\* nonce, counter); an all-zero message of length n encrypts to the first n
\* bytes of the keystream, the rest of the last block being dropped.
C5_EncryptionIsXor ==
    op = "encryption" =>
        \A keystream \in {generateKeystream(args.key, Len(args.message), args.nonce,
                                            args.counter)} :
            /\ Len(ret) = Len(args.message)
            /\ \A i \in 1..Len(args.message) :
                   ret[i] = BitXor(args.message[i], keystream[i])
            /\ AllZero(args.message) => ret = SubSeq(keystream, 1, Len(args.message))

C5_Witness ==
    /\ op = "encryption"
    /\ prev.op = "none"
    /\ Len(args.message) = 77
    /\ AllZero(args.message)
    /\ Len(ret) = 77
    /\ ~AllZero(ret)

\* C6: hash is Salsa20/20. With X the sixteen little-endian words of the
\* input and Z the result of ten double rounds on X, the output is the bytes
\* of littleEndianInverse((Z[i] + X[i]) mod 2^32), i = 0..15 in order; the X
\* that is added is the input as decoded, not touched by the rounds.
C6_HashIsSalsa20 ==
    op = "hash" =>
        \A X \in {[i \in 1..16 |->
                      littleEndian(args.message[(4 * i) - 3], args.message[(4 * i) - 2],
                                   args.message[(4 * i) - 1], args.message[4 * i])]
                  \o <<>>} :
        \A Z \in {doubleRound(doubleRound(doubleRound(doubleRound(doubleRound(
                  doubleRound(doubleRound(doubleRound(doubleRound(doubleRound(
                      X))))))))))} :
            /\ Len(ret) = 64
            /\ \A i \in 1..16 :
                   SubSeq(ret, (4 * i) - 3, 4 * i) =
                       littleEndianInverse(sumWords(Z[i], X[i]))

C6_Witness ==
    /\ op = "hash"
    /\ args.message = Pattern(64, 1, 101)
    /\ ret # args.message
    /\ Len(ret) = 64

\* ------------------------------------------------------------------------
\* Properties of Salsa20.encrypt, Salsa20.decrypt, Salsa20.generateKeystream
\* and of the validation functions
\* ------------------------------------------------------------------------

\* a call is over
Finished == pc \in {"returned", "threw"}

\* decrypt was called on the result of encrypt with the same key, nonce and
\* counter
DecryptAfterEncrypt == op = "decrypt" /\ prev.op = "encrypt"

\* decrypt reads its input in the format in which encrypt wrote it
FormatsAgree ==
    (args.options.inputTextType = "hex") = (prev.args.options.returnType = "hex")

\* C7 as stated: decrypt(key, encrypt(key, m, nonce, counter), nonce, counter)
\* returns m for any byte sequence m. Both calls are made with four
\* arguments; "returns m" is read as the bytes m or a string whose UTF-8
\* bytes are m.
C7_RoundTripAnyBytes ==
    (/\ DecryptAfterEncrypt
     /\ Finished
     /\ prev.args.message.type = "Uint8Array"
     /\ prev.args.options = NoOptions
     /\ args.options = NoOptions) =>
        /\ pc = "returned"
        /\ \/ ret.value = prev.args.message
           \/ /\ ret.value.type = "string"
              /\ utf8StringToBytes(ret.value.seq) = Return(prev.args.message)

\* C7, amended: with m the bytes that encrypt worked on, decrypt of the
\* result of encrypt computes m again. With returnType 'hex' it returns the
\* hexadecimal string of m, for any m. By default it returns a string, the
\* one whose UTF-8 bytes are m, which is the message itself when the message
\* was given to encrypt as text; it throws a URIError only by default and
\* only for a message given as bytes or in hexadecimal.
C7_RoundTrip ==
    (DecryptAfterEncrypt /\ Finished /\ FormatsAgree) =>
        \A m \in {prev.locals.message.seq} :
            /\ locals.bytes = m
            /\ args.options.returnType = "hex" =>
                  /\ pc = "returned"
                  /\ ret.value.type = "string"
                  /\ Len(ret.value.seq) = 2 * Len(m)
                  /\ hexToBytes(ret.value.seq) = m
            /\ (args.options.returnType # "hex" /\ pc = "returned") =>
                  /\ ret.value.type = "string"
                  /\ utf8StringToBytes(ret.value.seq) = Return(Uint8ArrayOf(m))
            /\ (/\ args.options.returnType # "hex"
                /\ prev.args.message.type = "string"
                /\ prev.args.options.inputTextType # "hex") =>
                  /\ pc = "returned"
                  /\ ret.value = prev.args.message
            /\ pc = "threw" =>
                  /\ ret = Throw("URIError")
                  /\ args.options.returnType # "hex"
                  /\ \/ prev.args.message.type = "Uint8Array"
                     \/ prev.args.options.inputTextType = "hex"

C7_Witness ==
    /\ DecryptAfterEncrypt
    /\ pc = "returned"
    /\ FormatsAgree
    /\ prev.args.message = Uint8ArrayOf(<<255>>)
    /\ args.options.returnType = "hex"
    /\ args.message # prev.args.message
    /\ hexToBytes(ret.value.seq) = <<255>>

\* the magnitude of ceil(n / 64) for the magnitude of n
MagCeilDiv64(mag) ==
    Let(MagAdd(mag, MagOf(63)), LAMBDA n :
        <<(n[1] \div 64) + ((n[2] % 64) * 1024),
          (n[2] \div 64) + ((n[3] % 64) * 1024),
          (n[3] \div 64) + ((n[4] % 64) * 1024),
          n[4] \div 64>>)

\* the magnitude of 2^53
MagTwoPow53 == <<0, 0, 0, 32>>

\* counter + ceil(length / 64) - 1 <= 2^53 - 1, in exact arithmetic
HighestCounterFits(counterMag, lengthMag) ==
    ~MagLess(MagTwoPow53, MagAdd(counterMag, MagCeilDiv64(lengthMag)))

\* typeof counter === 'number', counter an integer, counter >= 0
IsCounter(counter) == counter.type = "number" /\ counter.cls = "int" /\ ~counter.num.neg

Statements(o) ==
    IF o = "generateKeystream" THEN <<"key", "nonce", "counter", "keystream">>
    ELSE <<"key", "message", "nonce", "counter", "keystream", "xor">>

IsNonce(nonce) ==
    \/ nonce.type = "Uint8Array" /\ Len(nonce.seq) = 8
    \/ nonce.type = "string" /\ Len(nonce.seq) = 16
    \/ nonce.type = "number" /\ nonce.cls = "int" /\ ~nonce.num.neg

\* C9: in encrypt, decrypt and generateKeystream the validations run in the
\* order key, message, nonce, counter, the counter check on the byte length
\* of the parsed message, and all of them are complete before the first
\* keystream block; a call whose validation fails throws, having generated
\* no block, and returns nothing; a call that returns returns all its bytes.
C9_ValidationBeforeKeystream ==
    op \in Wrappers =>
        /\ \E n \in 0..Len(Statements(op)) :
               locals.done = {Statements(op)[i] : i \in 1..n}
        /\ "counter" \notin locals.done =>
               blocks = 0 /\ locals.keystream = <<>> /\ locals.bytes = <<>>
        /\ "key" \in locals.done => args.key.type \in {"string", "Uint8Array"}
        /\ "message" \in locals.done => args.message.type \in {"string", "Uint8Array"}
        /\ "nonce" \in locals.done => IsNonce(args.nonce)
        /\ "counter" \in locals.done => IsCounter(args.counter)
        /\ (/\ op # "generateKeystream"
            /\ "nonce" \in locals.done
            /\ pc # "parseCounter"
            /\ IsCounter(args.counter)) =>
               ("counter" \in locals.done) =
                   HighestCounterFits(args.counter.num.mag, MagOf(Len(locals.message.seq)))
        /\ pc = "threw" => ret.threw /\ ret.value = Undefined
        /\ (pc = "threw" /\ blocks > 0) => op = "decrypt" /\ ret.error = "URIError"
        /\ ~Finished => ret = NoResult
        /\ pc = "returned" =>
               /\ ~ret.threw
               /\ locals.done = {Statements(op)[i] : i \in 1..Len(Statements(op))}
               /\ op = "encrypt" =>
                      Len(ret.value.seq) =
                          (IF args.options.returnType = "hex" THEN 2 ELSE 1)
                          * Len(locals.message.seq)
               /\ op = "generateKeystream" =>
                      Len(ret.value.seq) =
                          (IF args.options.returnType = "hex" THEN 2 ELSE 1)
                          * 64 * CeilDiv64(args.length)

C9_Witness ==
    /\ op = "encrypt"
    /\ pc = "threw"
    /\ locals.done = {"key", "message", "nonce"}
    /\ args.message.type = "string"
    /\ args.options.inputTextType = "hex"
    /\ IsCounter(args.counter)
    /\ blocks = 0
    /\ ret.threw

\* C10: parseKey throws or returns a byte array of exactly 16 or 32 bytes;
\* in the wrappers the core is reached only with such a key, made from a
\* string or a Uint8Array, and never with a Uint8Array of another length.
C10_KeyLength ==
    /\ op = "parseKey" =>
           /\ Finished
           /\ pc = "threw" => ret.threw
           /\ pc = "returned" =>
                  /\ ret.value.type = "Uint8Array"
                  /\ Len(ret.value.seq) \in {16, 32}
                  /\ args.key.type \in {"string", "Uint8Array"}
                  /\ args.key.type = "Uint8Array" => ret.value = args.key
    /\ (op \in Wrappers /\ (pc \in {"keystream", "xor", "output"} \/ blocks > 0
                            \/ "keystream" \in locals.done)) =>
           /\ locals.key.type = "Uint8Array"
           /\ Len(locals.key.seq) \in {16, 32}
           /\ args.key.type \in {"string", "Uint8Array"}
           /\ args.key.type = "Uint8Array" => Len(args.key.seq) \in {16, 32}

C10_Witness ==
    /\ op = "encrypt"
    /\ pc = "returned"
    /\ blocks > 0
    /\ args.key.type = "string"
    /\ Len(locals.key.seq) = 32

\* a string of hexadecimal digits only
IsHexString(seq) == \A i \in 1..Len(seq) : HexDigitValue(seq[i]) >= 0

\* the bytes that a string of hexadecimal digits stands for
HexValue(seq) ==
    [i \in 1..(Len(seq) \div 2) |->
        (16 * HexDigitValue(seq[(2 * i) - 1])) + HexDigitValue(seq[2 * i])] \o <<>>

\* the forms of a nonce that are to be accepted: 8 bytes, 16 hexadecimal
\* symbols, an integer in 0 .. 2^53 - 1
AcceptedNonce(nonce) ==
    \/ nonce.type = "Uint8Array" /\ Len(nonce.seq) = 8
    \/ nonce.type = "string" /\ Len(nonce.seq) = 16 /\ IsHexString(nonce.seq)
    \/ /\ nonce.type = "number"
       /\ nonce.cls = "int"
       /\ ~nonce.num.neg
       /\ ~MagLess(maxInteger.mag, nonce.num.mag)

\* C11: parseNonce returns exactly 8 bytes for each accepted form, an 8-byte
\* Uint8Array unchanged, a string of 16 hexadecimal symbols as its bytes, an
\* integer 0 <= n <= 2^53 - 1 most significant byte first, and throws for
\* every other input.
C11_ParseNonce ==
    op = "parseNonce" =>
        IF AcceptedNonce(args.nonce)
        THEN /\ pc = "returned"
             /\ ret.value.type = "Uint8Array"
             /\ Len(ret.value.seq) = 8
             /\ args.nonce.type = "Uint8Array" => ret.value = args.nonce
             /\ args.nonce.type = "string" => ret.value.seq = HexValue(args.nonce.seq)
             /\ args.nonce.type = "number" => ret.value.seq = Enc8(args.nonce.num.mag)
             /\ args.nonce = JsNumber(maxInteger) =>
                    ret.value.seq = <<0, 31, 255, 255, 255, 255, 255, 255>>
        ELSE pc = "threw" /\ ret.threw

\* ------------------------------------------------------------------------
\* Properties of the functions that the core is made of
\* ------------------------------------------------------------------------

\* a word in [0, 2^32)
IsWord(w) == w.hi \in 0..65535 /\ w.lo \in 0..65535

\* bit i of a word, bit 0 the least significant
WordBit(w, i) == IF i < 16 THEN Bit(w.lo, i) ELSE Bit(w.hi, i - 16)

\* the magnitude of a word as an integer
WordMag(w) == <<w.lo, w.hi, 0, 0>>

\* C19: word arithmetic is unsigned and wraps mod 2^32: sumWords(a, b) is
\* (a + b) mod 2^32, xorWords(a, b) the bitwise exclusive-or, leftRotate(a, n)
\* for n in 1..31 is ((a * 2^n) mod 2^32) + floor(a / 2^(32 - n)), that is bit
\* i of a at place (i + n) mod 32; every result is a word in [0, 2^32), also
\* with bit 31 set in an operand or in the result.
C19_WordArithmetic ==
    /\ op = "sumWords" =>
           \A exact \in {MagAdd(WordMag(args.words[1]), WordMag(args.words[2]))} :
               /\ IsWord(ret)
               /\ ret.lo = exact[1]
               /\ ret.hi = exact[2]
               /\ args.words = <<Word(49320, 30846), Word(40913, 5661)>> =>
                      ret = Word(24697, 36507)
    /\ op = "xorWords" =>
           /\ IsWord(ret)
           /\ \A i \in 0..31 :
                  WordBit(ret, i) = (WordBit(args.words[1], i) + WordBit(args.words[2], i)) % 2
           /\ args.words = <<Word(49320, 30846), Word(40913, 5661)>> =>
                  ret = Word(24441, 28259)
    /\ op = "leftRotate" =>
           /\ IsWord(ret)
           /\ \A i \in 0..31 : WordBit(ret, (i + args.n) % 32) = WordBit(args.words[1], i)
           /\ (args.words = <<Word(49320, 30846)>> /\ args.n = 5) => ret = Word(5391, 4056)

C19_Witness ==
    /\ op = "sumWords"
    /\ args.words[1].hi >= 32768
    /\ args.words[2].hi >= 32768
    /\ ret.hi >= 32768
    /\ ret.lo < args.words[1].lo

\* ------ C12

\* C12: the all-zero input is a fixed point: quarterRound(0,0,0,0) returns
\* [0,0,0,0], rowRound, columnRound and doubleRound return the all-zero state
\* for the all-zero state, and hash of 64 zero bytes returns 64 zero bytes.
C12_ZeroFixedPoint ==
    /\ (op = "quarterRound" /\ args.words = <<WordZero, WordZero, WordZero, WordZero>>)
           => (pc = "returned" /\ ret = <<WordZero, WordZero, WordZero, WordZero>>)
    /\ (op \in {"rowRound", "columnRound", "doubleRound"} /\ args.words = ZeroState)
           => (pc = "returned" /\ ret = ZeroState)
    /\ (op = "hash" /\ AllZero(args.message))
           => (pc = "returned" /\ Len(ret) = 64 /\ AllZero(ret))

C12_Witness ==
    /\ op = "hash"
    /\ Len(args.message) = 64
    /\ AllZero(args.message)
    /\ Len(ret) = 64
    /\ AllZero(ret)

\* ------ C13

\* C13: quarterRound(y0,y1,y2,y3) returns [z0,z1,z2,z3] with
\* z1 = y1 xor rotl(y0+y3, 7), z2 = y2 xor rotl(z1+y0, 9),
\* z3 = y3 xor rotl(z2+z1, 13), z0 = y0 xor rotl(z3+z2, 18), every step on
\* the z words of the same call; the inputs of the repository's tests give
\* their expected results, [1,0,0,0] -> [0x08008145, 0x80, 0x10200, 0x20500000].
C13_QuarterRound ==
    op = "quarterRound" =>
        \A y \in {args.words} : \A z \in {ret} :
            /\ pc = "returned"
            /\ Len(z) = 4
            /\ z[2] = xorWords(y[2], leftRotate(sumWords(y[1], y[4]), 7))
            /\ z[3] = xorWords(y[3], leftRotate(sumWords(z[2], y[1]), 9))
            /\ z[4] = xorWords(y[4], leftRotate(sumWords(z[3], z[2]), 13))
            /\ z[1] = xorWords(y[1], leftRotate(sumWords(z[4], z[3]), 18))
            /\ \A t \in 1..Len(QrInputs) : y = QrInputs[t] => z = QrExpectedResults[t]

C13_Witness ==
    /\ op = "quarterRound"
    /\ args.words = <<Word(0, 1), WordZero, WordZero, WordZero>>
    /\ ret = <<Word(2048, 33093), Word(0, 128), Word(1, 512), Word(8272, 0)>>

\* ------ C14

\* the places a quarterRound on the words at g (indices of the program, from
\* 0) reads and writes
Group(x, g) == quarterRound(x[g[1] + 1], x[g[2] + 1], x[g[3] + 1], x[g[4] + 1])

GroupsAgree(x, y, groups) ==
    \A g \in groups : \A q \in {Group(x, g)} : \A k \in 1..4 : y[g[k] + 1] = q[k]

Partition(groups) ==
    \A i \in 0..15 : Cardinality({<<g, k>> \in groups \X (1..4) : g[k] = i}) = 1

ColumnGroups == {<<0, 4, 8, 12>>, <<5, 9, 13, 1>>, <<10, 14, 2, 6>>, <<15, 3, 7, 11>>}

RowGroups == {<<0, 1, 2, 3>>, <<5, 6, 7, 4>>, <<10, 11, 8, 9>>, <<15, 12, 13, 14>>}

\* C14: columnRound(x) returns y with (y0,y4,y8,y12) = quarterRound(x0,x4,x8,x12),
\* (y5,y9,y13,y1) = quarterRound(x5,x9,x13,x1), (y10,y14,y2,y6) =
\* quarterRound(x10,x14,x2,x6), (y15,y3,y7,y11) = quarterRound(x15,x3,x7,x11);
\* the four groups partition the 16 indices.
C14_ColumnRound ==
    /\ Partition(ColumnGroups)
    /\ op = "columnRound" =>
        /\ pc = "returned"
        /\ Len(ret) = 16
        /\ GroupsAgree(args.words, ret, ColumnGroups)
        /\ args.words = RrTestInput1 => ret = CrExpectedResult1
        /\ args.words = RrTestInput2 => ret = CrExpectedResult2

C14_Witness ==
    /\ op = "columnRound"
    /\ args.words = RrTestInput2
    /\ ret = CrExpectedResult2

\* ------ C15

\* C15: rowRound(y) returns z with (z0,z1,z2,z3) = quarterRound(y0,y1,y2,y3),
\* (z5,z6,z7,z4) = quarterRound(y5,y6,y7,y4), (z10,z11,z8,z9) =
\* quarterRound(y10,y11,y8,y9), (z15,z12,z13,z14) = quarterRound(y15,y12,y13,y14);
\* the four groups partition the 16 indices.
C15_RowRound ==
    /\ Partition(RowGroups)
    /\ op = "rowRound" =>
        /\ pc = "returned"
        /\ Len(ret) = 16
        /\ GroupsAgree(args.words, ret, RowGroups)
        /\ args.words = RrTestInput1 => ret = RrExpectedResult1
        /\ args.words = RrTestInput2 => ret = RrExpectedResult2

C15_Witness ==
    /\ op = "rowRound"
    /\ args.words = RrTestInput2
    /\ ret = RrExpectedResult2

\* ------ C16

\* C16: doubleRound(x) = rowRound(columnRound(x)) for every 16-word state x:
\* the column round first, the row round second.
C16_DoubleRound ==
    op = "doubleRound" =>
        /\ pc = "returned"
        /\ ret = rowRound(columnRound(args.words))
        /\ args.words = DrTestInput1 => ret = DrExpectedResult1
        /\ args.words = DrTestInput2 => ret = DrExpectedResult2

\* a state on which the two orders differ
C16_Witness ==
    /\ op = "doubleRound"
    /\ args.words = DrTestInput2
    /\ ret = DrExpectedResult2
    /\ ret # columnRound(rowRound(args.words))

\* ------ C17

\* the ASCII codes of "expa", "nd 3", "2-by", "te k", "nd 1", "6-by"
Expa == <<101, 120, 112, 97>>
Nd3  == <<110, 100, 32, 51>>
TwoBy == <<50, 45, 98, 121>>
TeK  == <<116, 101, 32, 107>>
Nd1  == <<110, 100, 32, 49>>
SixBy == <<54, 45, 98, 121>>

\* the block of the claim
ExpansionBlock(n, key0, key1) ==
    IF key1 # <<>>
    THEN Expa \o key0 \o Nd3 \o n \o TwoBy \o key1 \o TeK
    ELSE Expa \o key0 \o Nd1 \o n \o SixBy \o key0 \o TeK

\* the offsets of the seven pieces and their lengths
ExpansionPieces ==
    {<<0, 4>>, <<4, 16>>, <<20, 4>>, <<24, 16>>, <<40, 4>>, <<44, 16>>, <<60, 4>>}

\* C17: expansion(n, key0, key1) returns hash of the 64-byte block
\* 'expa' key0 'nd 3' n '2-by' key1 'te k' (offsets 0,4,20,24,40,44,60) for a
\* non-empty key1 and 'expa' key0 'nd 1' n '6-by' key0 'te k' for an empty
\* key1; the seven pieces cover every byte of the block exactly once.
C17_Expansion ==
    /\ \A i \in 0..63 :
           Cardinality({p \in ExpansionPieces : p[1] <= i /\ i < p[1] + p[2]}) = 1
    /\ op = "expansion" =>
        \A block \in {ExpansionBlock(args.nonce, args.key0, args.key1)} :
            /\ pc = "returned"
            /\ Len(block) = 64
            /\ ret = hash(block)
            /\ (args.nonce = ExpansionTest1Nonce /\ args.key0 = ExpansionTest1Key0) =>
                   /\ args.key1 = ExpansionTest1Key1 => ret = ExpansionTest1ExpectedResult
                   /\ args.key1 = <<>> => ret = ExpansionTest2ExpectedResult

C17_Witness ==
    /\ op = "expansion"
    /\ args.nonce = ExpansionTest1Nonce
    /\ args.key0 = ExpansionTest1Key0
    /\ args.key1 = ExpansionTest1Key1
    /\ ret = ExpansionTest1ExpectedResult

\* ------ C18

\* bytes are the 8 bytes of the integer of magnitude mag, most significant
\* first: the sum of bytes[i] * 256^(7-i) is the integer, limb by limb
BigEndian8(bytes, mag) ==
    /\ Len(bytes) = 8
    /\ \A i \in 1..8 : bytes[i] \in 0..255
    /\ \A j \in 1..4 : mag[j] = (bytes[9 - (2 * j)] * 256) + bytes[10 - (2 * j)]

\* C18: numToEightByteArray(n) returns exactly 8 bytes in big-endian order for
\* every integer n in 0 .. 2^53 - 1 (0 -> eight zeros, 256 -> [0,0,0,0,0,0,1,0],
\* 2^32 -> [0,0,0,1,0,0,0,0]), so two different integers give different bytes.
C18_NumToEightByteArray ==
    op = "numToEightByteArray" =>
        /\ pc = "returned"
        /\ ~args.n.neg /\ ~MagLess(maxInteger.mag, args.n.mag)
        /\ BigEndian8(ret, args.n.mag)
        /\ args.n = NumOf(0) => ret = <<0, 0, 0, 0, 0, 0, 0, 0>>
        /\ args.n = NumOf(256) => ret = <<0, 0, 0, 0, 0, 0, 1, 0>>
        /\ args.n = NumOf(1234567890) => ret = <<0, 0, 0, 0, 73, 150, 2, 210>>
        /\ args.n = JsInt(FALSE, <<0, 0, 1, 0>>) => ret = <<0, 0, 0, 1, 0, 0, 0, 0>>
        /\ args.n = maxInteger => ret = <<0, 31, 255, 255, 255, 255, 255, 255>>
        /\ (prev.op = "numToEightByteArray" /\ prev.args.n # args.n) => prev.ret # ret

\* two calls on 2^32 and 2^32 - 1
C18_Witness ==
    /\ op = "numToEightByteArray"
    /\ prev.op = "numToEightByteArray"
    /\ prev.args.n = JsInt(FALSE, <<0, 0, 1, 0>>)
    /\ prev.ret = <<0, 0, 0, 1, 0, 0, 0, 0>>
    /\ args.n = JsInt(FALSE, <<65535, 65535, 0, 0>>)
    /\ ret = <<0, 0, 0, 0, 255, 255, 255, 255>>

\* ------ C20

\* C20: littleEndian(b0,b1,b2,b3) = b0 + 256 b1 + 65536 b2 + 16777216 b3 (here
\* by 16-bit halves: b0 + 256 b1 below 65536, b2 + 256 b3 above);
\* littleEndianInverse of that word returns [b0,b1,b2,b3]; littleEndian of the
\* four bytes of littleEndianInverse(w) returns w, bit 31 set or not.
C20_LittleEndianInverses ==
    /\ op = "littleEndian" =>
        /\ pc = "returned"
        /\ IsWord(ret)
        /\ ret.lo = args.bytes[1] + (256 * args.bytes[2])
        /\ ret.hi = args.bytes[3] + (256 * args.bytes[4])
        /\ args.bytes = <<86, 75, 30, 9>> => ret = Word(2334, 19286)
        /\ args.bytes = <<255, 255, 255, 250>> => ret = Word(64255, 65535)
        /\ prev.op = "littleEndianInverse" => ret = prev.args.words[1]
    /\ op = "littleEndianInverse" =>
        /\ pc = "returned"
        /\ Len(ret) = 4
        /\ \A i \in 1..4 : ret[i] \in 0..255
        /\ prev.op = "littleEndian" => ret = prev.args.bytes

\* a word with bit 31 set comes back from its four bytes
C20_Witness ==
    /\ op = "littleEndian"
    /\ prev.op = "littleEndianInverse"
    /\ prev.args.words = <<Word(64255, 65535)>>
    /\ prev.ret = <<255, 255, 255, 250>>
    /\ ret = Word(64255, 65535)

\* ------------------------------------------------------------------------
\* Properties of the block loop of Salsa20.core.generateKeystream
\* ------------------------------------------------------------------------

\* blocks iterations of the loop are over (blocks counts the completed ones)
\* for the call generateKeystream(key, L, nonce, C) in args
LoopInvariant ==
    \A n \in {CeilDiv64(args.length)} :
        \* write offset = 64 * (counter - C)
        /\ locals.block = 64 * blocks
        /\ locals.counter.mag = MagAdd(args.counter.mag, MagOf(blocks))
        /\ ~locals.counter.neg
        \* the 16-byte field: the nonce, then the counter of the iteration
        /\ SubSeq(locals.counterAndNonceBytes, 1, 8) = args.nonce
        /\ Len(locals.counterAndNonceBytes) = 16
        /\ pc = "body" =>
               /\ blocks < n
               /\ SubSeq(locals.counterAndNonceBytes, 9, 16) = Enc8(locals.counter.mag)
        \* ceil(L / 64) iterations, no more
        /\ blocks <= n
        /\ pc = "returned" => blocks = n
        \* iteration b has written bytes 64 b .. 64 b + 63 and no other
        /\ Len(locals.keystreamBytes) = 64 * n
        /\ Len(locals.written) = 64 * n
        /\ \A i \in 1..(64 * n) :
               locals.written[i] = (IF i <= 64 * blocks THEN 1 ELSE 0)
        /\ \A i \in ((64 * blocks) + 1)..(64 * n) : locals.keystreamBytes[i] = 0
        /\ pc = "returned" =>
               /\ \A i \in 1..Len(locals.written) : locals.written[i] = 1
               /\ ret = locals.keystreamBytes
               /\ ret = generateKeystream(args.key, args.length, args.nonce, args.counter)

\* C21: the block loop of generateKeystream keeps write offset =
\* 64 * (counter - C) and, in every iteration, the 16-byte field = nonce
\* followed by the encoding of the current counter; it runs exactly
\* ceil(L / 64) iterations, iteration b writing bytes 64 b .. 64 b + 63 only,
\* so that every byte of the buffer is written exactly once; and it ends for
\* every start counter C with C + ceil(L / 64) <= 2^53.
C21_BlockLoop ==
    /\ [](op = "keystreamLoop" => LoopInvariant)
    /\ (op = "keystreamLoop") ~> (pc = "returned")

\* three iterations from C = 2^53 - 3, the last one on counter 2^53 - 1
C21_Witness ==
    /\ op = "keystreamLoop"
    /\ pc = "returned"
    /\ args.counter = JsSub(maxInteger, NumOf(2))
    /\ args.length = 192
    /\ blocks = 3
    /\ Len(ret) = 192
    /\ SubSeq(locals.counterAndNonceBytes, 9, 16) = <<0, 31, 255, 255, 255, 255, 255, 255>>

\* ------ C22

\* C22: in every call of core.encryption the keystream handed to
\* xorKeystreamAndMessage is at least as long as the message: every index
\* 0 .. message.length - 1 is an index of the keystream, and every output byte
\* is the message byte XOR the keystream byte at that index.
C22_KeystreamCoversMessage ==
    op = "encryptionCall" =>
        /\ locals.messageLength = Len(args.message)
        /\ Len(locals.keystream) >= Len(args.message)
        /\ \A i \in 0..(Len(args.message) - 1) : i < Len(locals.keystream)
        /\ pc = "returned" =>
               /\ Len(ret) = Len(args.message)
               /\ \A i \in 1..Len(args.message) :
                      /\ i \in DOMAIN locals.keystream
                      /\ ret[i] = BitXor(args.message[i], locals.keystream[i])

\* a message of 101 bytes and its keystream of 128
C22_Witness ==
    /\ op = "encryptionCall"
    /\ pc = "returned"
    /\ Len(args.message) = 101
    /\ Len(locals.keystream) = 128
    /\ Len(ret) = 101
    /\ ret # args.message

\* ------ C25

\* the blocks that the tasks have written are the blocks of the sequential
\* loop, and the rest of the buffer is as allocated
TasksAgree(l, keystream) ==
    \A b \in 0..(l.numBlocksToGenerate - 1) :
        SubSeq(l.keystreamBytes, (64 * b) + 1, (64 * b) + 64) =
            IF l.stage[b] = "written"
            THEN SubSeq(keystream, (64 * b) + 1, (64 * b) + 64)
            ELSE ZeroBytes(64)

CounterAboveRange(counter) ==
    /\ counter.type = "number"
    /\ counter.cls = "int"
    /\ ~counter.num.neg
    /\ MagLess(maxInteger.mag, counter.num.mag)

\* C26: parseCounter accepts only counters in the documented range
\* 0 .. 2^53 - 1: for every message length, including length 0, a counter
\* greater than 2^53 - 1 is rejected with an error.
C26_ParseCounterRange ==
    (op = "parseCounter" /\ CounterAboveRange(args.counter)) =>
        /\ pc = "threw"
        /\ ret.threw

\* ------ C27

\* C27: a key given as a hexadecimal string is accepted by parseKey only when
\* it has exactly 32 or exactly 64 hexadecimal symbols (128 or 256 bits), and
\* then as the bytes it stands for; every other string (e.g. 30, 31, 33 or 65
\* symbols) is rejected with the 'Incorrect key length' error.
C27_HexKeyLength ==
    (op = "parseKey" /\ args.key.type = "string") =>
        IF Len(args.key.seq) \in {32, 64} /\ IsHexString(args.key.seq)
        THEN /\ pc = "returned"
             /\ ret.value = Uint8ArrayOf(HexValue(args.key.seq))
        ELSE /\ pc = "threw"
             /\ ret.threw

\* ------ C28

\* a call of a public function has ended in one of its validations
ValidationFailed == op \in Wrappers /\ Finished /\ "counter" \notin locals.done

\* the invalid inputs that the claim names: a key of bytes whose length is
\* neither 16 nor 32, a malformed nonce, a counter that is not an integer
NamedInvalidInput ==
    \/ args.key.type = "Uint8Array" /\ Len(args.key.seq) \notin {16, 32}
    \/ ~IsNonce(args.nonce)
    \/ ~IsCounter(args.counter)

\* C28 as stated: on invalid input (a key whose length is neither 16 nor 32
\* bytes, a malformed nonce, a non-integer counter) encrypt, decrypt and
\* generateKeystream swallow the exception raised by validation and return
\* undefined to the caller.
C28_SwallowsException ==
    ValidationFailed =>
        /\ pc = "returned"
        /\ ret = Return(Undefined)

\* C28, amended: on invalid input encrypt, decrypt and generateKeystream do
\* not catch the exception raised by validation: the call ends with that
\* exception thrown to the caller, before any keystream block, and returns no
\* value; no call of a public function returns undefined.
C28_ExceptionPropagates ==
    op \in Wrappers =>
        /\ ValidationFailed =>
               /\ pc = "threw"
               /\ ret.threw
               /\ ret.error \in {"Error", "URIError"}
               /\ ret.error = "URIError" => locals.done = {"key"}
               /\ blocks = 0
        /\ (Finished /\ NamedInvalidInput) => ValidationFailed
        /\ pc = "returned" =>
               /\ ~ret.threw
               /\ ret.value # Undefined
               /\ ret.value.type \in {"Uint8Array", "string"}

\* encrypt on a nonce of 7 bytes, thrown by parseNonce after the key and the
\* message were accepted
C28_Witness ==
    /\ op = "encrypt"
    /\ pc = "threw"
    /\ locals.done = {"key", "message"}
    /\ args.nonce = Uint8ArrayOf(Pattern(7, 1, 0))
    /\ ret.threw
    /\ ret.error = "Error"
    /\ ret.value = Undefined

\* ------ C29

\* C29: key-size domain separation: for every 16-byte key k, every 32-byte
\* key K (in particular K = k ++ k) and every 16-byte nonce-and-counter field,
\* the 64-byte block that expansion passes to hash for k differs from the one
\* for K at offsets 23 and 40 ('1' and '6' for a 16-byte key, '3' and '2' for
\* a 32-byte key), so that the two key sizes never feed the same input to hash.
C29_KeySizeSeparation ==
    op = "expansionCall" =>
        /\ Len(locals.inputBytes) = 64
        /\ Len(args.key1) = 0 =>
               locals.inputBytes[23 + 1] = 49 /\ locals.inputBytes[40 + 1] = 54
        /\ Len(args.key1) # 0 =>
               locals.inputBytes[23 + 1] = 51 /\ locals.inputBytes[40 + 1] = 50
        /\ pc = "returned" => ret = hash(locals.inputBytes)
        /\ prev.op = "expansionCall" =>
               /\ prev.args.nonce = args.nonce
               /\ Len(prev.args.key1) = 0 /\ Len(args.key1) = 16
               /\ prev.locals.inputBytes[23 + 1] # locals.inputBytes[23 + 1]
               /\ prev.locals.inputBytes[40 + 1] # locals.inputBytes[40 + 1]
               /\ prev.locals.inputBytes # locals.inputBytes
               /\ \A i \in (1..64) \ {24, 41} :
                      (args.key0 = prev.args.key0 /\ args.key1 = prev.args.key0) =>
                          prev.locals.inputBytes[i] = locals.inputBytes[i]

\* the key k of the repository's test, then K = k ++ k, on the same field:
\* the two blocks differ at offsets 23 and 40 only, and so do the results
C29_Witness ==
    /\ op = "expansionCall"
    /\ pc = "returned"
    /\ prev.op = "expansionCall"
    /\ prev.args.key0 = ExpansionTest1Key0
    /\ prev.args.key1 = <<>>
    /\ args.key0 = ExpansionTest1Key0
    /\ args.key1 = ExpansionTest1Key0
    /\ args.nonce = ExpansionTest1Nonce
    /\ prev.ret = ExpansionTest2ExpectedResult
    /\ ret # prev.ret

\* ------ C30

\* C30: for all bytes a and b in 0..255, xorTwoBytes(a, b) lies in 0..255 and
\* xorTwoBytes(xorTwoBytes(a, b), b) = a: byte XOR is an involution with no
\* overflow outside the byte range.
C30_XorTwoBytes ==
    op = "xorTwoBytes" =>
        /\ ret \in 0..255
        /\ ret = 0 <=> args.byteA = args.byteB
        /\ prev.op = "xorTwoBytes" =>
               /\ args.byteA = prev.ret
               /\ args.byteB = prev.args.byteB
               /\ ret = prev.args.byteA

\* 250 ^ 255 = 5 and 5 ^ 255 = 250
C30_Witness ==
    /\ op = "xorTwoBytes"
    /\ prev.op = "xorTwoBytes"
    /\ prev.args = [byteA |-> 250, byteB |-> 255]
    /\ prev.ret = 5
    /\ args = [byteA |-> 5, byteB |-> 255]
    /\ ret = 250

\* ------ C23

\* C23: no operation of Salsa20.core writes to an array supplied by its
\* caller: when quarterRound, rowRound, columnRound, doubleRound, hash,
\* expansion, generateKeystream, encryption or xorKeystreamAndMessage has
\* returned, the input state, the input block, the key (also a 16-byte key,
\* which splitKey hands on without a copy), the nonce, the message and the
\* keystream hold the values they held at the call.
C23_CallerArraysUnchanged ==
    op \in FrameOps => \A r \in CallerRefs : locals[r] = args.arrays[r]

\* encryption under a 16-byte key, after a rowRound on a caller's state
C23_Witness ==
    /\ op = "core.encryption"
    /\ pc = "returned"
    /\ prev.op = "core.rowRound"
    /\ prev.ret # prev.args.arrays["state"]
    /\ Len(args.arrays["key"]) = 16
    /\ locals["key"] = Pattern(16, 1, 0)
    /\ Len(ret) = 70
    /\ ret # args.arrays["message"]

\* ------ C24

\* the result of the core function o on the arguments a, from a alone
CoreResult(o, a) ==
    CASE o = "core.quarterRound" ->
             quarterRound(a.words[1], a.words[2], a.words[3], a.words[4])
      [] o = "core.rowRound" -> rowRound(a.arrays["state"])
      [] o = "core.columnRound" -> columnRound(a.arrays["state"])
      [] o = "core.doubleRound" -> doubleRound(a.arrays["state"])
      [] o = "core.hash" -> hash(a.arrays["block"])
      [] o = "core.expansion" ->
             expansion(a.arrays["nonce"], a.arrays["key"], a.arrays["key1"])
      [] o = "core.generateKeystream" ->
             generateKeystream(a.arrays["key"], a.length, a.arrays["nonce"], a.counter)
      [] o = "core.encryption" ->
             encryption(a.arrays["key"], a.arrays["message"], a.arrays["nonce"], a.counter)
      [] o = "core.xorKeystreamAndMessage" ->
             xorKeystreamAndMessage(a.arrays["keystream"], a.arrays["message"], a.length)

\* the result of the public function o on the arguments a, from a alone
PublicResult(o, a) ==
    Let(parseKey(a.key), LAMBDA key :
    IF key.threw THEN key ELSE
    Let(IF o = "generateKeystream" THEN Return(Uint8ArrayOf(<<>>))
        ELSE parseMessage(a.message, a.options), LAMBDA message :
    IF message.threw THEN message ELSE
    Let(parseNonce(a.nonce), LAMBDA nonce :
    IF nonce.threw THEN nonce ELSE
    Let(parseCounter(a.counter, NumOf(IF o = "generateKeystream" THEN a.length
                                      ELSE Len(message.value.seq))),
        LAMBDA counter :
    IF counter.threw THEN counter ELSE
        WrapperOutput(o, a.options,
            IF o = "generateKeystream"
            THEN generateKeystream(key.value.seq, a.length, nonce.value.seq,
                                   counter.value.num)
            ELSE encryption(key.value.seq, message.value.seq, nonce.value.seq,
                            counter.value.num))))))

CallResult(o, a) ==
    IF o \in FrameOps THEN CoreResult(o, a)
    ELSE PublicResult(CHOOSE w \in Wrappers : PublicOps[w] = o, a.call)

\* C24: across any sequence of calls to encrypt, decrypt, generateKeystream
\* and the core functions, the module-level data is never modified
\* (constants16 and constants32 hold the values of the loaded module;
\* outputByteLength and maxInteger are values that no statement assigns), and
\* the result of a call depends only on its arguments: it is the value that
\* the arguments alone determine, and a call with the arguments of the call
\* before it returns what that call returned.
C24_NoSharedState ==
    op \in FrameOps \cup {PublicOps[w] : w \in Wrappers} =>
        /\ \A r \in ModuleRefs : locals[r] = ModuleHeap[r]
        /\ \A i \in 1..4 :
               /\ locals[Constants16Refs[i]] = constants16[i]
               /\ locals[Constants32Refs[i]] = constants32[i]
        /\ ret = CallResult(op, args)
        /\ (prev.op = op /\ prev.args = args) => prev.ret = ret
        /\ prev.op # "none" => prev.ret = CallResult(prev.op, prev.args)

\* encrypt twice under the same hexadecimal key, nonce and counter
C24_Witness ==
    /\ op = "Salsa20.encrypt"
    /\ pc = "returned"
    /\ prev.op = "Salsa20.encrypt"
    /\ prev.args = args
    /\ args.call.key.type = "string"
    /\ prev.ret = ret
    /\ ~ret.threw
    /\ ret.value.seq # args.arrays["message"]

====
